---- MODULE Spec2Model ----
(***************************************************************************)
(* A model of the clustered JMAP server's document-id assigner, of its     *)
(* Raft election state (src/cluster/raft.rs) and of the leader's           *)
(* per-follower replication driver (src/cluster/leader/spawn_leader.rs),   *)
(* of the TinyORM merge engine (components/jmap/src/orm/merge.rs) and of   *)
(* the push manager (src/services/push_subscription.rs).                   *)
(*                                                                         *)
(* Each subsystem has its own variables and its own specification; a       *)
(* specification leaves the variables of the other subsystems alone.       *)
(***************************************************************************)
EXTENDS Integers, Sequences, FiniteSets, TLC

VARIABLES
    \* ---- id assigner (components/store/src/write/id_assign.rs)
    store_ids,      \* key -> Option<bitmap>: what get_document_ids(key) reads
    id_assigner,    \* key -> Option<IdAssigner>: the JMAPStore.id_assigner cache
    id_pc,          \* thread -> where it is in JMAPStore::assign_document_id
    id_key,         \* thread -> the key of the call it is in
    assigned,       \* key -> the ids returned so far, in order (history)
    builds,         \* key -> how many initializers built an assigner (history)
    init_errs,      \* how many initializers failed on the bitmap read (history)
    \* ---- log comparison (src/cluster/raft.rs, log_is_behind_or_eq / log_is_behind)
    cmp_local,      \* the local node's last log, a RaftId
    cmp_cand,       \* the other side's last log, a RaftId
    cmp_out,        \* the results of the comparisons, once applied
    \* ---- Raft election state (src/cluster/raft.rs)
    cluster,        \* node -> its Cluster: term, state, last_log, peers' votes, flags
    vote_reqs,      \* Request::Vote messages dispatched and not yet handled
    vote_resps,     \* Response::Vote messages sent; a granted one may be delivered again
    offline,        \* the nodes cut off from the others (Peer::is_offline both ways)
    elections,      \* how many elections have been started in the shard (history)
    ev,             \* the start_election call of the last step, if any (history)
    \* ---- leader replication driver (src/cluster/leader/spawn_leader.rs)
    drv,            \* the task: where it is, its State and its copies of the indexes
    log_index_rx,   \* the watch of the leader's log indexes, as the task holds it
    online_rx,      \* the watch of the peer's online flag, as the task holds it
    request,        \* the request handed to peer_tx and not yet answered
    response,       \* the response the task acted on in its last turn, if any
    main_tx,        \* the event the last step sent to the coordinator, if any
    main_rx_open,   \* whether the coordinator still holds the receiver of main_tx
    init_tx,        \* the leader's init gate: "unset", "ok" or "failed"
    peer,           \* the follower's side of the exchange
    \* ---- TinyORM merge engine (components/jmap/src/orm/merge.rs)
    orm,            \* the stored ORM of the document: properties, tags, acls
    orm_changes,    \* the ORM the current operation merged into it
    document,       \* the Document of the current operation
    merged,         \* the call of the current operation and what it returned
    orm_index,      \* the document's index entries in the store
    \* ---- push manager (src/services/push_subscription.rs)
    subscriptions,  \* id -> the PushServer registered under it, if any
    retry_ids,      \* the ids the retry pass has to look at
    deliveries,     \* the delivery tasks spawned that have not reported yet
    push_ev         \* the event of the last turn, and counters (history)

idVars == <<store_ids, id_assigner, id_pc, id_key, assigned, builds, init_errs>>

cmpVars == <<cmp_local, cmp_cand, cmp_out>>

raftVars == <<cluster, vote_reqs, vote_resps, offline, elections, ev>>

drvVars ==
    <<drv, log_index_rx, online_rx, request, response, main_tx, main_rx_open, init_tx, peer>>

ormVars == <<orm, orm_changes, document, merged, orm_index>>

pushVars == <<subscriptions, retry_ids, deliveries, push_ev>>

vars == <<idVars, cmpVars, raftVars, drvVars, ormVars, pushVars>>

\* What a step of one subsystem leaves alone: the variables of the others.
IdFrame == UNCHANGED <<cmpVars, raftVars, drvVars, ormVars, pushVars>>

CmpFrame == UNCHANGED <<idVars, raftVars, drvVars, ormVars, pushVars>>

RaftFrame == UNCHANGED <<idVars, cmpVars, drvVars, ormVars, pushVars>>

DrvFrame == UNCHANGED <<idVars, cmpVars, raftVars, ormVars, pushVars>>

OrmFrame == UNCHANGED <<idVars, cmpVars, raftVars, drvVars, pushVars>>

PushFrame == UNCHANGED <<idVars, cmpVars, raftVars, drvVars, ormVars>>

\* ------------------------------------------------------------------------
\* Helpers
\* ------------------------------------------------------------------------

Some(x) == [some |-> TRUE, val |-> x]

NoneOf(default) == [some |-> FALSE, val |-> default]

SetMax(S) == CHOOSE x \in S : \A y \in S : y <= x

SetMin(S) == CHOOSE x \in S : \A y \in S : x <= y

\* RoaringBitmap ^= : the symmetric difference of two bitmaps.
BitXor(a, b) == (a \ b) \cup (b \ a)

\* ------------------------------------------------------------------------
\* RaftId and the log comparison used for voting
\* ------------------------------------------------------------------------

\* The width of TermId and LogIndex in the model (u64 in the code).
IndexBits == 3

\* u64::MAX at the model's width.
U64_MAX == (2 ^ IndexBits) - 1

RaftIdOf(term, index) == [term |-> term, index |-> index]

\* RaftId::none(): u64::MAX for both the term and the index.
NONE == RaftIdOf(U64_MAX, U64_MAX)

IsNone(id) == id = NONE

\* u64::wrapping_add(1)
WrappingAdd1(x) == (x + 1) % (U64_MAX + 1)

LogIsBehindOrEqOneSided(local, last_log_term, last_log_index) ==
    \/ last_log_term > local.term
    \/ /\ last_log_term = local.term
       /\ WrappingAdd1(last_log_index) >= local.index

\* Cluster::log_is_behind_or_eq, of the node whose last_log is `local`.
LogIsBehindOrEq(local, last_log_term, last_log_index) ==
    \/ last_log_term > local.term
    \/ /\ last_log_term = local.term
       /\ WrappingAdd1(last_log_index) >= WrappingAdd1(local.index)

\* Cluster::log_is_behind, of the node whose last_log is `local`.
LogIsBehind(local, last_log_term, last_log_index) ==
    \/ last_log_term > local.term
    \/ /\ last_log_term = local.term
       /\ WrappingAdd1(last_log_index) > WrappingAdd1(local.index)

\* Every RaftId a u64 pair can hold.
RaftIds == {RaftIdOf(t, i) : t \in 0..U64_MAX, i \in 0..U64_MAX}

CmpNotApplied ==
    [applied |-> FALSE, behind_or_eq |-> FALSE, behind |-> FALSE,
     rev_behind_or_eq |-> FALSE]

\* The comparison variables while another subsystem runs.
CmpIdle ==
    /\ cmp_local = NONE
    /\ cmp_cand = NONE
    /\ cmp_out = CmpNotApplied

CmpInputs ==
    /\ cmp_local \in RaftIds
    /\ cmp_cand \in RaftIds
    /\ cmp_out = CmpNotApplied

\* The node whose last log is cmp_local compares cmp_cand with it, and the node
\* whose last log is cmp_cand compares cmp_local with its own.
CmpApply ==
    /\ CmpFrame
    /\ ~cmp_out.applied
    /\ cmp_out' =
          [applied |-> TRUE,
           behind_or_eq |-> LogIsBehindOrEq(cmp_local, cmp_cand.term, cmp_cand.index),
           behind |-> LogIsBehind(cmp_local, cmp_cand.term, cmp_cand.index),
           rev_behind_or_eq |-> LogIsBehindOrEq(cmp_cand, cmp_local.term, cmp_local.index)]
    /\ UNCHANGED <<cmp_local, cmp_cand>>

\* ------------------------------------------------------------------------
\* Raft state: elections and voting
\* ------------------------------------------------------------------------

\* How many elections the nodes of the shard may start in the model.
MaxElections == 2

\* The node ids a shard may be made of, each node running a Cluster.
ShardNodes == {1, 2, 3, 4}

\* A peer of another shard, listed in every node's peer table.
OtherPeers == {5}

\* Peer.shard_id / Cluster.shard_id
ShardOf(p) == IF p \in ShardNodes THEN "shard1" ELSE "shard2"

\* Peer::is_in_shard
IsInShard(p, shard_id) == ShardOf(p) = shard_id

\* The State variants; election_due is kept as the node's `due` (it has passed)
\* and the watch channel of Leader as the node's `rx` (the value it holds).
WaitState == [kind |-> "Wait", peer_id |-> 0]

CandidateState == [kind |-> "Candidate", peer_id |-> 0]

LeaderState == [kind |-> "Leader", peer_id |-> 0]

VotedForState(p) == [kind |-> "VotedFor", peer_id |-> p]

FollowerState(p) == [kind |-> "Follower", peer_id |-> p]

\* The states that hold an election_due.
TimerKinds == {"Wait", "Candidate", "VotedFor"}

\* A node as it starts: State::default() and no vote, at the term of its last
\* log, with every other member and the peers of other shards in its peer table.
NodeInit(n, last_log, members) ==
    [peer_id |-> n,
     shard_id |-> ShardOf(n),
     term |-> IF last_log = NONE THEN 0 ELSE last_log.term,
     state |-> WaitState,
     due |-> FALSE,
     last_log |-> last_log,
     vote_granted |-> [p \in (members \cup OtherPeers) \ {n} |-> FALSE],
     spawned |-> [p \in (members \cup OtherPeers) \ {n} |-> 0],
     rx |-> NoneOf(0),
     is_leader |-> FALSE,
     is_up_to_date |-> FALSE,
     raft_log_term |-> IF last_log = NONE THEN 0 ELSE last_log.term]

\* Cluster.peers
PeersOf(nd) == DOMAIN nd.vote_granted

\* Cluster::reset
Reset(nd) == [nd EXCEPT !.vote_granted = [p \in PeersOf(nd) |-> FALSE]]

\* JMAPServer::set_follower
SetFollower(nd) == [nd EXCEPT !.is_leader = FALSE, !.is_up_to_date = FALSE]

\* JMAPServer::set_leader
SetLeader(nd, term) ==
    [nd EXCEPT !.is_leader = TRUE, !.is_up_to_date = TRUE, !.raft_log_term = term]

\* Leaving State::Leader drops the watch channel: the replication tasks end.
NoDrivers(nd) ==
    [nd EXCEPT !.spawned = [p \in PeersOf(nd) |-> 0], !.rx = NoneOf(0)]

\* Cluster::start_election_timer; election_timeout(now) is in the future for
\* either value of `now`.
StartElectionTimer(nd) ==
    Reset(SetFollower(NoDrivers([nd EXCEPT !.state = WaitState, !.due = FALSE])))

StepDownKeepLeading(nd, term) ==
    NoDrivers([Reset(nd) EXCEPT !.term = term,
                                !.state = WaitState,
                                !.due = (nd.state.kind \in TimerKinds /\ nd.due)])

\* Cluster::step_down: an election_due that has passed is kept.
StepDown(nd, term) ==
    LET r == SetFollower(Reset(nd))
    IN  NoDrivers([r EXCEPT !.term = term,
                            !.state = WaitState,
                            !.due = (nd.state.kind \in TimerKinds /\ nd.due)])

\* Cluster::vote_for
VoteFor(nd, peer_id) ==
    Reset(SetFollower(NoDrivers([nd EXCEPT !.state = VotedForState(peer_id),
                                           !.due = FALSE])))

\* Cluster::follow_leader
FollowLeader(nd, peer_id) ==
    Reset(SetFollower(NoDrivers([nd EXCEPT !.state = FollowerState(peer_id),
                                           !.due = FALSE])))

\* A run_for_election that keeps the term.
RunForElectionSameTerm(nd) ==
    Reset(SetFollower(NoDrivers([nd EXCEPT !.state = CandidateState, !.due = FALSE])))

\* Cluster::run_for_election
RunForElection(nd) ==
    Reset(SetFollower(NoDrivers([nd EXCEPT !.state = CandidateState,
                                           !.due = FALSE,
                                           !.term = nd.term + 1])))

BecomeLeaderEveryPeer(nd) ==
    Reset(SetLeader([nd EXCEPT !.spawned = [p \in PeersOf(nd) |-> nd.spawned[p] + 1],
                               !.rx = Some(nd.last_log.index),
                               !.state = LeaderState,
                               !.due = FALSE],
                    nd.term))

\* A become_leader that leaves out the reset of the votes.
BecomeLeaderKeepVotes(nd) ==
    SetLeader([nd EXCEPT !.spawned = [p \in PeersOf(nd) |->
                                         IF IsInShard(p, nd.shard_id)
                                         THEN nd.spawned[p] + 1 ELSE nd.spawned[p]],
                         !.rx = Some(nd.last_log.index),
                         !.state = LeaderState,
                         !.due = FALSE],
              nd.term)

\* Cluster::become_leader: a watch channel that holds last_log.index, and one
\* replication task per peer of this node's shard, each with a clone of rx.
BecomeLeader(nd) ==
    Reset(SetLeader([nd EXCEPT !.spawned = [p \in PeersOf(nd) |->
                                               IF IsInShard(p, nd.shard_id)
                                               THEN nd.spawned[p] + 1 ELSE nd.spawned[p]],
                               !.rx = Some(nd.last_log.index),
                               !.state = LeaderState,
                               !.due = FALSE],
                    nd.term))

\* Cluster::can_grant_vote
CanGrantVote(nd, candidate_peer_id) ==
    CASE nd.state.kind = "Wait" -> TRUE
      [] nd.state.kind = "VotedFor" -> candidate_peer_id = nd.state.peer_id
      [] OTHER -> FALSE

\* Cluster::is_candidate
IsCandidate(nd) == nd.state.kind = "Candidate"

CountVotePerResponse(nd, peer_id) ==
    LET total_peers == Cardinality({p \in PeersOf(nd) : IsInShard(p, nd.shard_id)})
        votes == 2 + Cardinality({p \in PeersOf(nd) :
                                     IsInShard(p, nd.shard_id) /\ nd.vote_granted[p]})
    IN  [node |-> [nd EXCEPT !.vote_granted =
                       [p \in PeersOf(nd) |-> p = peer_id \/ nd.vote_granted[p]]],
         won |-> votes > ((total_peers + 1) \div 2)]

\* Cluster::count_vote: the node with the vote recorded, and whether it has won.
CountVote(nd, peer_id) ==
    LET granted == [p \in PeersOf(nd) |->
                       IF IsInShard(p, nd.shard_id) /\ p = peer_id
                       THEN TRUE ELSE nd.vote_granted[p]]
        total_peers == Cardinality({p \in PeersOf(nd) : IsInShard(p, nd.shard_id)})
        votes == 1 + Cardinality({p \in PeersOf(nd) :
                                     IsInShard(p, nd.shard_id) /\ granted[p]})
    IN  [node |-> [nd EXCEPT !.vote_granted = granted],
         won |-> votes > ((total_peers + 1) \div 2)]

\* Cluster::handle_vote_request: the node afterwards and the Response::Vote.
HandleVoteRequest(nd, peer_id, term, last) ==
    LET a == IF nd.term < term THEN StepDown(nd, term) ELSE nd
        grant == /\ a.term = term
                 /\ CanGrantVote(a, peer_id)
                 /\ LogIsBehindOrEq(a.last_log, last.term, last.index)
    IN  [node |-> IF grant THEN VoteFor(a, peer_id) ELSE a,
         resp |-> [term |-> a.term, vote_granted |-> grant]]

\* Cluster::handle_vote_response
HandleVoteResponse(nd, peer_id, term, vote_granted) ==
    IF nd.term < term THEN StepDown(nd, term)
    ELSE IF ~IsCandidate(nd) \/ ~vote_granted \/ nd.term # term THEN nd
    ELSE LET c == CountVote(nd, peer_id)
         IN  IF c.won THEN BecomeLeader(c.node) ELSE c.node

\* The node whose start_election ran in the last step, or whose handler found
\* its election_due passed, if one did.
NoEvent == [op |-> "none", node |-> 0]

\* The election variables while another subsystem runs.
RaftIdle ==
    /\ cluster = [n \in {1, 2, 3} |-> NodeInit(n, NONE, {1, 2, 3})]
    /\ vote_reqs = {}
    /\ vote_resps = {}
    /\ offline = {}
    /\ elections = 0
    /\ ev = NoEvent

\* ------------------------------------------------------------------------
\* Leader replication driver: its state, requests and responses
\* ------------------------------------------------------------------------

\* The greatest log index of the model, and how many entries, documents or
\* blobs one batch carries.
MaxIndex == 1
BatchMax == 1

\* LogIndex::MAX
LogIndexMax == U64_MAX

LogIndexes == 0..MaxIndex

\* MergedChanges
NoChanges == [inserts |-> {}, updates |-> {}, deletes |-> {}]

\* leader::State; a variant's fields that it does not have are left blank.
StateOf(kind) ==
    [kind |-> kind, pending_changes |-> {}, matched_log |-> NONE,
     changes |-> NoChanges, is_rollback |-> FALSE, pending_blob_ids |-> {}]

BecomeLeaderSt == StateOf("BecomeLeader")

SynchronizeSt == StateOf("Synchronize")

MergeSt(matched_log) == [StateOf("Merge") EXCEPT !.matched_log = matched_log]

WaitSt == StateOf("Wait")

AppendLogsSt(pending_changes) ==
    [StateOf("AppendLogs") EXCEPT !.pending_changes = pending_changes]

AppendChangesSt(changes, is_rollback) ==
    [StateOf("AppendChanges") EXCEPT !.changes = changes, !.is_rollback = is_rollback]

AppendBlobsSt(pending_blob_ids) ==
    [StateOf("AppendBlobs") EXCEPT !.pending_blob_ids = pending_blob_ids]

\* rpc::Request as the driver sends it; `updates` names what an Update carries.
RequestOf(kind, term) ==
    [kind |-> kind, term |-> term, last_log |-> NONE, matched_log |-> NONE,
     commit_index |-> LogIndexMax, updates |-> {}]

NoReq == RequestOf("NoReq", 0)

\* Event sent to the coordinator over main_tx.
MainEventOf(kind, term, commit_index) ==
    [kind |-> kind, term |-> term, commit_index |-> commit_index]

NoMain == MainEventOf("NoMain", 0, LogIndexMax)

\* rpc::Response as the driver receives it, together with what the store
\* answers to the lookups its handling makes (next_raft_id: get_next_raft_id;
\* local_match: get_raft_match_indexes).
NoLocalMatch == [ok |-> FALSE, term |-> 0, indexes |-> {}]

ResponseOf(kind) ==
    [kind |-> kind, term |-> 0, match_log |-> NONE, match_indexes |-> "empty",
     indexes |-> {}, up_to_index |-> LogIndexMax, changes_ok |-> TRUE,
     changes |-> NoChanges, is_rollback |-> FALSE, blob_ids |-> {},
     next_raft_id |-> "same", local_match |-> NoLocalMatch]

NoResp == ResponseOf("NoResp")

\* Response::UpdatePeers, Response::Vote, Response::Pong
UnexpectedKinds == {"UpdatePeers", "Vote", "Pong"}

\* The task's locals: where it is (`pc`), its State, and its copies of the
\* leader's indexes. init_rx says whether the init gate is still to be taken.
DriverOf(term, last_log, uncommitted_index, init_rx) ==
    [pc |-> "loop",
     state |-> BecomeLeaderSt,
     follower_last_index |-> LogIndexMax,
     last_log |-> last_log,
     uncommitted_index |-> uncommitted_index,
     term |-> term,
     init_rx |-> init_rx]

\* The task has left its loop, and its locals are gone with it.
Exited(d) == [DriverOf(d.term, NONE, LogIndexMax, FALSE) EXCEPT !.pc = "exit"]

\* store.get_log_entries: up to a batch of the entries after follower_last_index
\* up to uncommitted_index, or what is pending of the last entry read; an entry
\* of SplitEntries does not fit into the batch that reaches it.
SplitEntries == {1}

GetLogEntries(follower_last_index, uncommitted_index, pending_changes) ==
    IF pending_changes # {}
    THEN [updates |-> pending_changes, pending_changes |-> {},
          last_index |-> follower_last_index]
    ELSE LET from == WrappingAdd1(follower_last_index)
             to == IF from + BatchMax - 1 < uncommitted_index
                   THEN from + BatchMax - 1 ELSE uncommitted_index
         IN  [updates |-> from..to,
              pending_changes |-> {to} \cap SplitEntries,
              last_index |-> to]

\* Up to a batch of the ids of a set, smallest first.
RECURSIVE TakeBatch(_, _)
TakeBatch(S, n) ==
    IF S = {} \/ n = 0 THEN {}
    ELSE {SetMin(S)} \cup TakeBatch(S \ {SetMin(S)}, n - 1)

\* core.prepare_changes: the updates of a batch of the inserted and updated
\* documents, which it takes out of `changes`.
PrepareChanges(changes, is_rollback) ==
    LET batch == TakeBatch(changes.inserts \cup changes.updates, BatchMax)
    IN  [updates |-> batch,
         changes |-> [changes EXCEPT !.inserts = @ \ batch, !.updates = @ \ batch]]

\* core.prepare_blobs: the updates of a batch of blobs, and the ids left.
PrepareBlobs(pending_blob_ids) ==
    LET batch == TakeBatch(pending_blob_ids, BatchMax)
    IN  [updates |-> batch, pending_blob_ids |-> pending_blob_ids \ batch]

\* ------------------------------------------------------------------------
\* Leader replication driver: one turn of its loop
\* ------------------------------------------------------------------------

\* last_log.index = log_index.last_log_index; last_log.term = term;
\* uncommitted_index = log_index.uncommitted_index
RefreshLogIndex(d, rx) ==
    [d EXCEPT !.last_log = RaftIdOf(d.term, rx.last_log_index),
              !.uncommitted_index = rx.uncommitted_index]

\* The poll at the top of the loop: an unseen value is read, and takes the
\* task out of State::Wait; a closed channel ends the task.
PollLogIndex(d, rx) ==
    IF rx.changed
    THEN LET r == RefreshLogIndex(d, rx)
         IN  IF r.state.kind = "Wait" THEN [r EXCEPT !.state = AppendLogsSt({})] ELSE r
    ELSE IF rx.closed THEN Exited(d)
    ELSE d

\* A receiver after its value has been read.
Seen(rx) == [rx EXCEPT !.changed = FALSE]

\* What the state asks to be sent, and the state it leaves; store_ok says
\* whether the store call the state makes, if any, succeeds, and for
\* State::AppendLogs also whether its debug assertion is compiled out or, if
\* it is compiled in, holds.
DispatchBecomeLeader(d) ==
    [drv |-> d,
     req |-> [RequestOf("BecomeFollower", d.term) EXCEPT !.last_log = d.last_log]]

DispatchSynchronize(d, store_ok) ==
    IF store_ok
    THEN [drv |-> d, req |-> RequestOf("Synchronize", d.term)]
    ELSE [drv |-> Exited(d), req |-> NoReq]

DispatchMerge(d) ==
    [drv |-> d,
     req |-> [RequestOf("Merge", d.term) EXCEPT !.matched_log = d.state.matched_log]]

DispatchAppendLogsUncommitted(d, store_ok) ==
    IF d.uncommitted_index = LogIndexMax /\ ~store_ok
    THEN [drv |-> Exited(d), req |-> NoReq]
    ELSE IF d.state.pending_changes # {} \/ d.follower_last_index # d.uncommitted_index
    THEN IF store_ok
         THEN LET g == GetLogEntries(d.follower_last_index, d.uncommitted_index,
                                     d.state.pending_changes)
              IN  [drv |-> [d EXCEPT !.follower_last_index = g.last_index,
                                     !.state = AppendLogsSt(g.pending_changes)],
                   req |-> [RequestOf("Update", d.term) EXCEPT
                               !.commit_index = d.uncommitted_index,
                               !.updates = g.updates]]
         ELSE [drv |-> Exited(d), req |-> NoReq]
    ELSE [drv |-> [d EXCEPT !.state = WaitSt],
          req |-> [RequestOf("AdvanceCommitIndex", d.term) EXCEPT
                      !.commit_index = d.uncommitted_index]]

DispatchAppendLogs(d, store_ok) ==
    IF d.uncommitted_index = LogIndexMax /\ ~store_ok
    THEN [drv |-> Exited(d), req |-> NoReq]
    ELSE IF d.state.pending_changes # {} \/ d.follower_last_index # d.uncommitted_index
    THEN IF store_ok
         THEN LET g == GetLogEntries(d.follower_last_index, d.uncommitted_index,
                                     d.state.pending_changes)
              IN  [drv |-> [d EXCEPT !.follower_last_index = g.last_index,
                                     !.state = AppendLogsSt(g.pending_changes)],
                   req |-> [RequestOf("Update", d.term) EXCEPT
                               !.commit_index = d.last_log.index,
                               !.updates = g.updates]]
         ELSE [drv |-> Exited(d), req |-> NoReq]
    ELSE [drv |-> [d EXCEPT !.state = WaitSt],
          req |-> [RequestOf("AdvanceCommitIndex", d.term) EXCEPT
                      !.commit_index = d.last_log.index]]

DispatchAppendChanges(d, store_ok) ==
    IF store_ok
    THEN LET p == PrepareChanges(d.state.changes, d.state.is_rollback)
         IN  [drv |-> [d EXCEPT !.state = AppendChangesSt(p.changes, d.state.is_rollback)],
              req |-> [RequestOf("Update", d.term) EXCEPT
                          !.commit_index = d.last_log.index,
                          !.updates = p.updates]]
    ELSE [drv |-> Exited(d), req |-> NoReq]

DispatchAppendBlobsSendEmpty(d, store_ok) ==
    IF store_ok
    THEN LET p == PrepareBlobs(d.state.pending_blob_ids)
         IN  [drv |-> [d EXCEPT !.state = AppendBlobsSt(p.pending_blob_ids)],
              req |-> [RequestOf("Update", d.term) EXCEPT
                          !.commit_index = d.last_log.index,
                          !.updates = p.updates]]
    ELSE [drv |-> Exited(d), req |-> NoReq]

DispatchAppendBlobs(d, store_ok) ==
    IF d.state.pending_blob_ids = {}
    THEN [drv |-> Exited(d), req |-> NoReq]
    ELSE IF store_ok
    THEN LET p == PrepareBlobs(d.state.pending_blob_ids)
         IN  [drv |-> [d EXCEPT !.state = AppendBlobsSt(p.pending_blob_ids)],
              req |-> [RequestOf("Update", d.term) EXCEPT
                          !.commit_index = d.last_log.index,
                          !.updates = p.updates]]
    ELSE [drv |-> Exited(d), req |-> NoReq]

\* `let request = match state { ... }` for every state but State::Wait.
Dispatch(d, store_ok) ==
    CASE d.state.kind = "BecomeLeader" -> DispatchBecomeLeader(d)
      [] d.state.kind = "Synchronize" -> DispatchSynchronize(d, store_ok)
      [] d.state.kind = "Merge" -> DispatchMerge(d)
      [] d.state.kind = "AppendLogs" -> DispatchAppendLogs(d, store_ok)
      [] d.state.kind = "AppendChanges" -> DispatchAppendChanges(d, store_ok)
      [] d.state.kind = "AppendBlobs" -> DispatchAppendBlobs(d, store_ok)

\* ------------------------------------------------------------------------
\* Leader replication driver: what it does with a response
\* ------------------------------------------------------------------------

\* An outcome: the task afterwards, and the event sent over main_tx, if any.
Outcome(d, main) == [drv |-> d, main |-> main]

\* Response::StepDown
OnStepDown(d, resp) ==
    Outcome(Exited(d), MainEventOf("StepDown", resp.term, LogIndexMax))

OnNoneRetry(d) == Outcome([d EXCEPT !.state = BecomeLeaderSt], NoMain)

\* Response::None: the task goes to wait for the peer to be online again.
OnNone(d) == Outcome([d EXCEPT !.pc = "online"], NoMain)

OnUnregisteredPeerIgnored(d) == Outcome(d, NoMain)

\* Response::UnregisteredPeer
OnUnregisteredPeer(d) == Outcome([d EXCEPT !.state = BecomeLeaderSt], NoMain)

OnMatchAlwaysAppend(d, resp) ==
    LET d1 == [d EXCEPT !.follower_last_index = resp.match_log.index]
    IN  IF ~IsNone(resp.match_log)
        THEN CASE resp.next_raft_id = "same" ->
                    Outcome([d1 EXCEPT !.state = AppendLogsSt({})],
                            MainEventOf("AdvanceCommitIndex", 0, resp.match_log.index))
               [] resp.next_raft_id = "other" ->
                    Outcome([d1 EXCEPT !.state = AppendLogsSt({})], NoMain)
               [] OTHER -> Outcome(Exited(d1), NoMain)
        ELSE Outcome([d1 EXCEPT !.state = AppendLogsSt({})], NoMain)

\* AppendEntriesResponse::Match, once the init gate is passed.
OnMatch(d, resp) ==
    LET d1 == [d EXCEPT !.follower_last_index = resp.match_log.index]
    IN  IF ~IsNone(resp.match_log)
        THEN CASE resp.next_raft_id = "same" ->
                    Outcome([d1 EXCEPT !.state = AppendLogsSt({})],
                            MainEventOf("AdvanceCommitIndex", 0, resp.match_log.index))
               [] resp.next_raft_id = "other" ->
                    Outcome([d1 EXCEPT !.state = SynchronizeSt], NoMain)
               [] OTHER -> Outcome(Exited(d1), NoMain)
        ELSE Outcome([d1 EXCEPT !.state = IF d.uncommitted_index # LogIndexMax
                                          THEN AppendLogsSt({}) ELSE WaitSt],
                     NoMain)

OnSynchronizeNoIntersection(d, resp) ==
    IF resp.match_indexes = "empty"
    THEN Outcome([d EXCEPT !.follower_last_index = NONE.index,
                           !.state = MergeSt(NONE)], NoMain)
    ELSE IF resp.match_indexes = "malformed" \/ resp.indexes = {} \/ ~resp.local_match.ok
    THEN Outcome(Exited(d), NoMain)
    ELSE IF resp.local_match.indexes = {} \/ resp.local_match.indexes \cap resp.indexes = {}
    THEN Outcome([d EXCEPT !.state = BecomeLeaderSt], NoMain)
    ELSE LET matched_log == RaftIdOf(resp.local_match.term, SetMax(resp.indexes))
         IN  Outcome([d EXCEPT !.follower_last_index = matched_log.index,
                               !.state = MergeSt(matched_log)], NoMain)

\* AppendEntriesResponse::Synchronize
OnSynchronize(d, resp) ==
    IF resp.match_indexes = "empty"
    THEN Outcome([d EXCEPT !.follower_last_index = NONE.index,
                           !.state = MergeSt(NONE)], NoMain)
    ELSE IF resp.match_indexes = "malformed" \/ resp.indexes = {} \/ ~resp.local_match.ok
    THEN Outcome(Exited(d), NoMain)
    ELSE LET local_match_indexes == resp.local_match.indexes \cap resp.indexes
         IN  IF resp.local_match.indexes = {} \/ local_match_indexes = {}
             THEN Outcome([d EXCEPT !.state = BecomeLeaderSt], NoMain)
             ELSE LET matched_log == RaftIdOf(resp.local_match.term,
                                              SetMax(local_match_indexes))
                  IN  Outcome([d EXCEPT !.follower_last_index = matched_log.index,
                                        !.state = MergeSt(matched_log)], NoMain)

\* A variant of AppendEntriesResponse::Done that always resumes AppendLogs.
OnDoneAlwaysAppend(d, resp) ==
    Outcome([d EXCEPT !.state = AppendLogsSt({})],
            IF resp.up_to_index # LogIndexMax
            THEN MainEventOf("AdvanceCommitIndex", 0, resp.up_to_index)
            ELSE NoMain)

OnDoneAlwaysAdvance(d, resp) ==
    Outcome([d EXCEPT !.state = IF resp.up_to_index # d.uncommitted_index
                                 THEN AppendLogsSt({}) ELSE WaitSt],
            MainEventOf("AdvanceCommitIndex", 0, resp.up_to_index))

\* AppendEntriesResponse::Done
OnDone(d, resp) ==
    Outcome([d EXCEPT !.state = IF resp.up_to_index # d.uncommitted_index
                                 THEN AppendLogsSt({}) ELSE WaitSt],
            IF resp.up_to_index # LogIndexMax
            THEN MainEventOf("AdvanceCommitIndex", 0, resp.up_to_index)
            ELSE NoMain)

\* "Restore deletions": deletes that are not empty replace the inserts.
RestoreDeletions(changes) ==
    IF changes.deletes # {}
    THEN [changes EXCEPT !.inserts = changes.deletes, !.deletes = {}]
    ELSE changes

\* AppendEntriesResponse::Update
OnUpdate(d, resp) ==
    IF ~resp.changes_ok
    THEN Outcome(Exited(d), NoMain)
    ELSE Outcome([d EXCEPT !.state = AppendChangesSt(RestoreDeletions(resp.changes),
                                                      resp.is_rollback)],
                 NoMain)

\* AppendEntriesResponse::FetchBlobs
OnFetchBlobs(d, resp) ==
    Outcome([d EXCEPT !.state = AppendBlobsSt(resp.blob_ids)], NoMain)

\* `match response { ... }` for an AppendEntries response other than a Match
\* that finds the init gate still to be taken.
OnAppendEntries(d, resp) ==
    CASE resp.kind = "Match" -> OnMatch(d, resp)
      [] resp.kind = "Synchronize" -> OnSynchronize(d, resp)
      [] resp.kind = "Continue" -> Outcome(d, NoMain)
      [] resp.kind = "Done" -> OnDone(d, resp)
      [] resp.kind = "Update" -> OnUpdate(d, resp)
      [] resp.kind = "FetchBlobs" -> OnFetchBlobs(d, resp)

\* What follows send_request: the response decides where the loop goes on.
\* Any outcome that does not leave the loop continues it at its top.
OnResponse(d, resp) ==
    CASE resp.kind = "StepDown" -> OnStepDown(d, resp)
      [] resp.kind = "None" -> OnNone(d)
      [] resp.kind = "UnregisteredPeer" -> OnUnregisteredPeer(d)
      [] resp.kind \in UnexpectedKinds -> Outcome(d, NoMain)
      [] resp.kind = "Match" /\ d.init_rx ->
            Outcome([d EXCEPT !.init_rx = FALSE, !.pc = "init"], NoMain)
      [] OTHER -> OnAppendEntries(d, resp)

\* A watch receiver of the leader's log indexes: the value, whether it has
\* not been seen yet, and whether the sender is gone.
LogIndexRx(last_log_index, uncommitted_index, changed, closed) ==
    [last_log_index |-> last_log_index, uncommitted_index |-> uncommitted_index,
     changed |-> changed, closed |-> closed]

\* A watch receiver of the peer's online flag.
OnlineRx(online, changed, closed) ==
    [online |-> online, changed |-> changed, closed |-> closed]

\* The follower's side: whether peer_tx still has its receiver, whether the
\* follower can be reached, the last index of its log, and how often it has
\* been cut off.
PeerOf(last_index) ==
    [tx_open |-> TRUE, reachable |-> TRUE, last_index |-> last_index, outages |-> 0]

\* The driver variables while another subsystem runs.
DrvIdle ==
    /\ drv = Exited(DriverOf(0, NONE, LogIndexMax, FALSE))
    /\ log_index_rx = LogIndexRx(LogIndexMax, LogIndexMax, FALSE, TRUE)
    /\ online_rx = OnlineRx(FALSE, FALSE, TRUE)
    /\ request = NoReq
    /\ response = NoResp
    /\ main_tx = NoMain
    /\ main_rx_open = FALSE
    /\ init_tx = "unset"
    /\ peer = [PeerOf(LogIndexMax) EXCEPT !.tx_open = FALSE, !.reachable = FALSE]

\* ------------------------------------------------------------------------
\* TinyORM: values, index forms, the object's schema, the Document
\* (components/jmap/src/orm/merge.rs and what it calls)
\* ------------------------------------------------------------------------

\* A Value: its kind and its items (one item for a scalar, none for Null).
\* Numbers are written as their decimal strings.
ValueOf(kind, items) == [kind |-> kind, items |-> items]

\* No value: what properties.get(property) returns for a property not set.
Absent == ValueOf("Absent", <<>>)

\* A value that has no index form and is not empty (a boolean, an object).
Opaque == ValueOf("Bool", <<"true">>)

\* Value::is_empty(): Null, the empty text and the empty list.
IsEmpty(value) ==
    \/ value.kind = "Null"
    \/ value.kind = "Text" /\ value.items = <<"">>
    \/ value.kind \in {"TextList", "IntegerList"} /\ value.items = <<>>

\* Value::index_as(): the Index of a value, Index::Null for a value that has
\* no index form.
IndexAs(value) ==
    IF value.kind \in {"Text", "TextList", "Integer", "IntegerList", "LongInteger"}
    THEN [kind |-> value.kind, items |-> value.items]
    ELSE [kind |-> "Null", items |-> <<>>]

\* The properties of the object kind T, in the order the merge visits them.
Properties == <<"subject", "keywords", "note">>

\* T::required() and T::indexed().
Required == <<"subject">>

Indexed == {"subject", "keywords"}

\* An ORM: Property -> Value (Absent when not set), Property -> set of tags
\* for the properties that have tags, and the list of ACLs.
OrmOf(properties, tags, acls) ==
    [properties |-> properties, tags |-> tags, acls |-> acls]

NoTags == [p \in {} |-> {}]

\* TinyORM::new()
NewOrm == OrmOf([p \in {"subject", "keywords", "note"} |-> Absent], NoTags, <<>>)

\* One mutation of a Document: document.text / number / tag / acl, with the
\* clear option or without it.
Mutation(field, property, value, clear) ==
    [field |-> field, property |-> property, value |-> value, clear |-> clear]

\* The Document a call works on: the mutations added so far, in order, and
\* the ORM serialized into it by insert_orm, if any.
NoOrm == NoneOf(NewOrm)

DocumentOf(ops, serialized) == [ops |-> ops, orm |-> serialized]

EmptyDocument == DocumentOf(<<>>, NoOrm)

\* The field an index form is written to: document.text for Text and
\* TextList, document.number for the integer kinds.
FieldOf(kind) == IF kind \in {"Text", "TextList"} THEN "text" ELSE "number"

Contains(list, item) == \E i \in 1..Len(list) : list[i] = item

\* The mutations of a loop `for item in list { if keep(item) { add } }`.
RECURSIVE ForEach(_, _, _, _, _)
ForEach(list, other, field, property, clear) ==
    IF list = <<>>
    THEN <<>>
    ELSE LET rest == ForEach(Tail(list), other, field, property, clear)
         IN  IF Contains(other, Head(list))
             THEN rest
             ELSE <<Mutation(field, property, Head(list), clear)>> \o rest

\* The running state of merge(): self.properties, the document's mutations
\* and has_changes.
MergeAcc(properties, ops, has_changes) ==
    [properties |-> properties, ops |-> ops, has_changes |-> has_changes]

\* What the store holds for a document after its mutations are committed,
\* in order: a mutation without the clear option adds its entry, one with
\* it removes the entry.
EntryOf(m) == [field |-> m.field, property |-> m.property, value |-> m.value]

RECURSIVE Commit(_, _)
Commit(entries, ops) ==
    IF ops = <<>>
    THEN entries
    ELSE Commit(IF Head(ops).clear
                THEN entries \ {EntryOf(Head(ops))}
                ELSE entries \cup {EntryOf(Head(ops))},
                Tail(ops))

\* ------------------------------------------------------------------------
\* TinyORM::merge and TinyORM::merge_validate
\* ------------------------------------------------------------------------

\* A list merge that does not diff: it clears every current item and adds
\* every new one.
MergeListReplace(acc, property, current_value, new_value) ==
    LET cur == IndexAs(current_value)
        new == IndexAs(new_value)
    IN  MergeAcc([acc.properties EXCEPT ![property] = new_value],
                 acc.ops \o ForEach(cur.items, <<>>, FieldOf(cur.kind), property, TRUE)
                         \o ForEach(new.items, <<>>, FieldOf(new.kind), property, FALSE),
                 TRUE)

\* merge.rs 78-149: the current value of an indexed property is a list.  A
\* new list of the same kind is diffed against it and stored; for any other
\* new value every current item is cleared and the property is removed.
\* Either way the loop goes on to the next property.
MergeList(acc, property, current_value, new_value) ==
    LET cur == IndexAs(current_value)
        new == IndexAs(new_value)
        field == FieldOf(cur.kind)
    IN  IF new.kind = cur.kind
        THEN MergeAcc([acc.properties EXCEPT ![property] = new_value],
                      acc.ops \o ForEach(cur.items, new.items, field, property, TRUE)
                              \o ForEach(new.items, cur.items, field, property, FALSE),
                      TRUE)
        ELSE MergeAcc([acc.properties EXCEPT ![property] = Absent],
                      acc.ops \o ForEach(cur.items, <<>>, field, property, TRUE),
                      TRUE)

\* An insert branch that stores the new value and writes no index mutation.
InsertStoreOnly(acc, property, new_value) ==
    MergeAcc([acc.properties EXCEPT ![property] = new_value], acc.ops, TRUE)

\* merge.rs 155-200: the insert branch.  An indexed property is added to the
\* index item by item and stored, unless its index form is Null; a property
\* that is not indexed is stored unless it is empty.  A property that is not
\* stored is removed.
Insert(acc, property, new_value) ==
    LET new == IndexAs(new_value)
        is_indexed == property \in Indexed
        do_insert == IF is_indexed THEN new.kind # "Null" ELSE ~IsEmpty(new_value)
        added == IF is_indexed
                 THEN ForEach(new.items, <<>>, FieldOf(new.kind), property, FALSE)
                 ELSE <<>>
    IN  MergeAcc([acc.properties EXCEPT
                     ![property] = IF do_insert THEN new_value ELSE Absent],
                 acc.ops \o added,
                 TRUE)

\* One turn of the loop without the test of merge.rs 52-53, which skips a
\* property whose new value equals the current one.
MergePropertyNoSkip(acc, property, new_value) ==
    LET current_value == acc.properties[property]
        cur == IndexAs(current_value)
    IN  IF current_value # Absent /\ property \in Indexed
           /\ cur.kind \in {"TextList", "IntegerList"}
        THEN MergeList(acc, property, current_value, new_value)
        ELSE IF current_value # Absent /\ property \in Indexed
                /\ cur.kind \in {"Text", "Integer", "LongInteger"}
        THEN Insert([acc EXCEPT !.ops = Append(@,
                        Mutation(FieldOf(cur.kind), property, cur.items[1], TRUE))],
                    property, new_value)
        ELSE Insert(acc, property, new_value)

\* merge.rs 38-201, one turn of the loop over changes.properties.
MergeProperty(acc, property, new_value) ==
    LET current_value == acc.properties[property]
        is_indexed == property \in Indexed
        cur == IndexAs(current_value)
    IN  IF current_value # Absent /\ current_value = new_value
        THEN acc
        ELSE IF current_value # Absent /\ is_indexed
                /\ cur.kind \in {"TextList", "IntegerList"}
        THEN MergeList(acc, property, current_value, new_value)
        ELSE IF current_value # Absent /\ is_indexed
                /\ cur.kind \in {"Text", "Integer", "LongInteger"}
        THEN Insert([acc EXCEPT !.ops = Append(@,
                        Mutation(FieldOf(cur.kind), property, cur.items[1], TRUE))],
                    property, new_value)
        ELSE Insert(acc, property, new_value)

\* The loop over changes.properties, from the i-th property on.
RECURSIVE MergeProperties(_, _, _)
MergeProperties(acc, new_properties, i) ==
    IF i > Len(Properties)
    THEN acc
    ELSE LET property == Properties[i]
         IN  MergeProperties(
                 IF new_properties[property] = Absent
                 THEN acc
                 ELSE MergeProperty(acc, property, new_properties[property]),
                 new_properties, i + 1)

\* The order in which a set is iterated.
RECURSIVE IterOf(_)
IterOf(set) ==
    IF set = {}
    THEN <<>>
    ELSE LET first == CHOOSE x \in set : TRUE
         IN  <<first>> \o IterOf(set \ {first})

\* The tag mutations of a loop over the tags of one property.
TagOps(property, tags, clear) ==
    LET list == IterOf(tags)
    IN  [i \in 1..Len(list) |-> Mutation("tag", property, list[i], clear)]

\* merge.rs 204-218: clear the tags a property of self has lost, for the
\* properties changes has tags for.
RECURSIVE ClearTags(_, _, _)
ClearTags(properties, tags, changed) ==
    IF properties = <<>>
    THEN <<>>
    ELSE LET property == Head(properties)
         IN  (IF property \in DOMAIN changed /\ tags[property] # changed[property]
              THEN TagOps(property, tags[property] \ changed[property], TRUE)
              ELSE <<>>)
             \o ClearTags(Tail(properties), tags, changed)

\* A second loop that adds every tag of changes, also those self has.
RECURSIVE AddTagsAll(_, _, _)
AddTagsAll(properties, tags, changed) ==
    IF properties = <<>>
    THEN <<>>
    ELSE TagOps(Head(properties), changed[Head(properties)], FALSE)
         \o AddTagsAll(Tail(properties), tags, changed)

\* merge.rs 220-238: add the tags a property of changes has gained.
RECURSIVE AddTags(_, _, _)
AddTags(properties, tags, changed) ==
    IF properties = <<>>
    THEN <<>>
    ELSE LET property == Head(properties)
         IN  (IF property \in DOMAIN tags
              THEN IF changed[property] # tags[property]
                   THEN TagOps(property, changed[property] \ tags[property], FALSE)
                   ELSE <<>>
              ELSE TagOps(property, changed[property], FALSE))
             \o AddTags(Tail(properties), tags, changed)

\* merge.rs 248-252: clear the ACLs of self whose id changes does not have.
RECURSIVE ClearAcls(_, _)
ClearAcls(acls, changed) ==
    IF acls = <<>>
    THEN <<>>
    ELSE (IF \E i \in 1..Len(changed) : changed[i].id = Head(acls).id
          THEN <<>>
          ELSE <<Mutation("acl", "acl", Head(acls), TRUE)>>)
         \o ClearAcls(Tail(acls), changed)

\* merge.rs 254-258: add the ACLs of changes that self does not contain.
RECURSIVE AddAcls(_, _)
AddAcls(changed, acls) ==
    IF changed = <<>>
    THEN <<>>
    ELSE (IF Contains(acls, Head(changed))
          THEN <<>>
          ELSE <<Mutation("acl", "acl", Head(changed), FALSE)>>)
         \o AddAcls(Tail(changed), acls)

\* merge.rs 203-245: the tag pass.  self.tags becomes changes.tags.
MergeTags(self, ops, has_changes, new) ==
    IF self.tags # new.tags
    THEN [orm |-> [self EXCEPT !.tags = new.tags],
          ops |-> ops \o ClearTags(IterOf(DOMAIN self.tags), self.tags, new.tags)
                      \o AddTags(IterOf(DOMAIN new.tags), self.tags, new.tags),
          has_changes |-> TRUE]
    ELSE [orm |-> self, ops |-> ops, has_changes |-> has_changes]

\* merge.rs 247-263: the ACL pass.  It writes the index mutations and sets
\* has_changes; it makes no assignment to self.acls.
MergeAcls(m, new) ==
    IF m.orm.acls # new.acls
    THEN [m EXCEPT !.ops = @ \o ClearAcls(m.orm.acls, new.acls)
                             \o AddAcls(new.acls, m.orm.acls),
                   !.has_changes = TRUE]
    ELSE m

\* merge.rs 34-263: merge() up to its last statement: the ORM self has
\* become, the mutations added to the document and has_changes.
Merge(self, new) ==
    LET acc == MergeProperties(MergeAcc(self.properties, <<>>, FALSE),
                               new.properties, 1)
    IN  MergeAcls(MergeTags([self EXCEPT !.properties = acc.properties],
                            acc.ops, acc.has_changes, new),
                  new)

\* A gate that looks at the new values only: it lets a call pass that omits
\* a required property self does not have.
RECURSIVE RequiredGateNewOnly(_, _, _)
RequiredGateNewOnly(required, self, new) ==
    IF required = <<>>
    THEN <<>>
    ELSE IF IsEmpty(new.properties[Head(required)])
         THEN <<Head(required)>>
         ELSE RequiredGateNewOnly(Tail(required), self, new)

\* merge.rs 18-30: the required property the gate of merge_validate fails
\* on, as a one-element list, or the empty list when it lets the call pass.
RECURSIVE RequiredGate(_, _, _)
RequiredGate(required, self, new) ==
    IF required = <<>>
    THEN <<>>
    ELSE LET property == Head(required)
             fails == IF new.properties[property] # Absent
                      THEN IsEmpty(new.properties[property])
                      ELSE self.properties[property] = Absent
         IN  IF fails THEN <<property>> ELSE RequiredGate(Tail(required), self, new)

\* The call of the current operation and what it returned.
Returned(op, kind, detail) == [op |-> op, kind |-> kind, detail |-> detail]

NotCalled == Returned("none", "None", "")

OkTrue(op) == Returned(op, "Ok", "true")

OkFalse(op) == Returned(op, "Ok", "false")

StoreErr(op) == Returned(op, "Err", "store")

InvalidProperty(property) == Returned("merge_validate", "InvalidProperty", property)

\* The merge variables while another subsystem runs.
OrmIdle ==
    /\ orm = NewOrm
    /\ orm_changes = NewOrm
    /\ document = EmptyDocument
    /\ merged = NotCalled
    /\ orm_index = {}

\* ------------------------------------------------------------------------
\* Push manager: subscriptions and delivery tasks
\* (src/services/push_subscription.rs)
\* ------------------------------------------------------------------------

PUSH_MAX_ATTEMPTS == 3

\* How many Push events and how many Register updates a behaviour has.
MaxPushes == 2

MaxRegisters == 2

\* The subscription ids.
PushIds == {"p1"}

\* The time since last_request, as far as the manager tells it apart:
\* "short" is below THROTTLE_MS, "throttle" above THROTTLE_MS and below
\* PUSH_ATTEMPT_INTERVAL_MS, "interval" above PUSH_ATTEMPT_INTERVAL_MS.
Elapsed == <<"short", "throttle", "interval">>

\* A PushServer; last_request is kept as the time elapsed since it.
PushServerOf(num_attempts, last_request, state_changes, in_flight) ==
    [num_attempts |-> num_attempts, last_request |-> last_request,
     state_changes |-> state_changes, in_flight |-> in_flight]

\* No entry under an id of the subscriptions map.
NoServer == PushServerOf(0, "none", <<>>, FALSE)

\* push_subscription.rs 181-190: the PushServer a Register update inserts,
\* its last_request THROTTLE_MS + 1 in the past.
NewServer == PushServerOf(0, "throttle", <<>>, FALSE)

\* A delivery task spawned by PushServer::send: the state changes it took,
\* and a number that tells it from the other tasks that have not reported.
DeliveryOf(id, state_changes, n) ==
    [id |-> id, state_changes |-> state_changes, n |-> n]

\* The last turn of the manager (history): the event it handled, whether
\* its retry pass ran, the deliveries it started, each with the
\* num_attempts it was started at, and the ids whose queue it discarded;
\* and the counters: the Push and Register events so far and, per id, the
\* deliveries started since the entry was inserted, a delivery succeeded or
\* the queue was discarded.
PushEvOf(kind, pushes, registers, streak) ==
    [kind |-> kind, retried |-> FALSE, sends |-> <<>>, discards |-> {},
     pushes |-> pushes, registers |-> registers, streak |-> streak]

\* The push manager variables while another subsystem runs.
PushIdle ==
    /\ subscriptions = [id \in PushIds |-> NoServer]
    /\ retry_ids = {}
    /\ deliveries = {}
    /\ push_ev = PushEvOf("none", 0, 0, [id \in PushIds |-> 0])

\* ------------------------------------------------------------------------
\* IdAssigner
\* ------------------------------------------------------------------------

\* Bounds of the id-assigner model.
MaxUsedId == 2
MaxCalls == 7

Threads == {"t1", "t2"}

\* The (account, collection) keys the threads use.
Keys == {<<1, "Mail">>, <<1, "Mailbox">>}

\* Scenario S4's bitmap.
ScenarioUsed == {0, 2, 5}

\* The bitmaps the store may hold for a key: none, or a non-empty set of ids.
InitialBitmaps ==
    {NoneOf({})}
        \cup {Some(u) : u \in (SUBSET (0..MaxUsedId)) \ {{}}}
        \cup {Some(ScenarioUsed)}

\* IdAssigner::new
IdAssignerNewBadNext(used_ids) ==
    IF used_ids.some
    THEN LET next_id == SetMax(used_ids.val)
             freed_ids == BitXor(0..(next_id - 1), used_ids.val)
         IN  [freed_ids |-> IF freed_ids # {} THEN Some(freed_ids) ELSE NoneOf({}),
              next_id |-> next_id]
    ELSE [freed_ids |-> NoneOf({}), next_id |-> 0]

IdAssignerNew(used_ids) ==
    IF used_ids.some
    THEN LET next_id == SetMax(used_ids.val) + 1
             freed_ids == BitXor(0..(next_id - 1), used_ids.val)
         IN  [freed_ids |-> IF freed_ids # {} THEN Some(freed_ids) ELSE NoneOf({}),
              next_id |-> next_id]
    ELSE [freed_ids |-> NoneOf({}), next_id |-> 0]

\* IdAssigner::assign_document_id: the id returned and the assigner afterwards.
AssignDocumentId(a) ==
    IF a.freed_ids.some
    THEN LET id == SetMin(a.freed_ids.val)
             rest == a.freed_ids.val \ {id}
         IN  [id |-> id,
              assigner |-> [a EXCEPT !.freed_ids =
                                IF rest = {} THEN NoneOf({}) ELSE Some(rest)]]
    ELSE [id |-> a.next_id,
          assigner |-> [a EXCEPT !.next_id = a.next_id + 1]]

NoAssigner == NoneOf([freed_ids |-> NoneOf({}), next_id |-> 0])

CacheMissAlways(k) == TRUE

\* Whether try_get_with finds the key in the cache.
CacheMiss(k) == ~id_assigner[k].some

CacheHit(k) == id_assigner[k].some

\* The key of a thread that is in no call.
NoKey == <<0, "None">>

IdInit ==
    /\ CmpIdle
    /\ RaftIdle
    /\ DrvIdle
    /\ OrmIdle
    /\ PushIdle
    /\ store_ids \in [Keys -> InitialBitmaps]
    /\ id_assigner = [k \in Keys |-> NoAssigner]
    /\ id_pc = [t \in Threads |-> "idle"]
    /\ id_key = [t \in Threads |-> NoKey]
    /\ assigned = [k \in Keys |-> <<>>]
    /\ builds = [k \in Keys |-> 0]
    /\ init_errs = 0

\* JMAPStore::get_id_assigner, the key is cached: the caller gets the shared Arc.
GetCached(t, k) ==
    /\ IdFrame
    /\ id_pc[t] = "idle"
    /\ Len(assigned[k]) < MaxCalls
    /\ CacheHit(k)
    /\ id_pc' = [id_pc EXCEPT ![t] = "got"]
    /\ id_key' = [id_key EXCEPT ![t] = k]
    /\ UNCHANGED <<store_ids, id_assigner, assigned, builds, init_errs>>

\* JMAPStore::get_id_assigner, the key is not cached: try_get_with runs this caller's
\* initializer unless another caller's initializer for the key is running (the cache
\* coalesces concurrent loads of a key: the others wait for it).
InitBegin(t, k) ==
    /\ IdFrame
    /\ id_pc[t] = "idle"
    /\ Len(assigned[k]) < MaxCalls
    /\ CacheMiss(k)
    /\ \A o \in Threads : ~(id_pc[o] = "init" /\ id_key[o] = k)
    /\ id_pc' = [id_pc EXCEPT ![t] = "init"]
    /\ id_key' = [id_key EXCEPT ![t] = k]
    /\ UNCHANGED <<store_ids, id_assigner, assigned, builds, init_errs>>

\* The initializer read the bitmap and built the assigner, which is cached.
InitOk(t) ==
    /\ IdFrame
    /\ id_pc[t] = "init"
    /\ id_assigner' = [id_assigner EXCEPT
                          ![id_key[t]] = Some(IdAssignerNew(store_ids[id_key[t]]))]
    /\ builds' = [builds EXCEPT ![id_key[t]] = @ + 1]
    /\ id_pc' = [id_pc EXCEPT ![t] = "got"]
    /\ UNCHANGED <<store_ids, id_key, assigned, init_errs>>

\* The initializer's get_document_ids failed: nothing is cached, the call returns Err.
InitErr(t) ==
    /\ IdFrame
    /\ id_pc[t] = "init"
    /\ init_errs = 0
    /\ init_errs' = 1
    /\ id_pc' = [id_pc EXCEPT ![t] = "idle"]
    /\ id_key' = [id_key EXCEPT ![t] = NoKey]
    /\ UNCHANGED <<store_ids, id_assigner, assigned, builds>>

\* JMAPStore::assign_document_id: .lock().assign_document_id() under the mutex.
Assign(t) ==
    /\ IdFrame
    /\ id_pc[t] = "got"
    /\ LET k == id_key[t]
           r == AssignDocumentId(id_assigner[k].val)
       IN  /\ id_assigner' = [id_assigner EXCEPT ![k] = Some(r.assigner)]
           /\ assigned' = [assigned EXCEPT ![k] = Append(@, r.id)]
    /\ id_pc' = [id_pc EXCEPT ![t] = "idle"]
    /\ id_key' = [id_key EXCEPT ![t] = NoKey]
    /\ UNCHANGED <<store_ids, builds, init_errs>>

IdNext ==
    \/ \E t \in Threads, k \in Keys : GetCached(t, k)
    \/ \E t \in Threads, k \in Keys : InitBegin(t, k)
    \/ \E t \in Threads : InitOk(t)
    \/ \E t \in Threads : InitErr(t)
    \/ \E t \in Threads : Assign(t)

SpecId == IdInit /\ [][IdNext]_vars

\* ---- the assignment policy as the specification words it

RECURSIVE SortedSeq(_)
SortedSeq(S) == IF S = {} THEN <<>> ELSE <<SetMin(S)>> \o SortedSeq(S \ {SetMin(S)})

\* The holes below the greatest used id, ascending.
HolesOf(U) == SortedSeq({i \in 0..SetMax(U) : i \notin U})

\* The n first ids the policy hands out from the used-id bitmap U: the holes in
\* ascending order, then max(U)+1, max(U)+2, ...
PolicyIds(U, n) ==
    [i \in 1..n |->
        IF i <= Len(HolesOf(U)) THEN HolesOf(U)[i]
        ELSE SetMax(U) + (i - Len(HolesOf(U)))]

\* s and t agree wherever both are defined.
Agree(s, t) == \A i \in (DOMAIN s) \cap (DOMAIN t) : s[i] = t[i]

ScenarioIds == <<1, 3, 4, 6, 7, 8, 9>>

\* C1: from a used-id bitmap U the assigner hands out the holes of U below max(U)
\* in ascending order and then max(U)+1, max(U)+2, ...; what is left in freed_ids
\* and next_id says so after every call; for U = {0,2,5} the calls return
\* 1, 3, 4, 6, 7, 8, 9 in that order.
C1_AssignPolicy ==
    \A k \in Keys :
        (store_ids[k].some /\ id_assigner[k].some) =>
            LET U == store_ids[k].val
                n == Len(assigned[k])
                h == Len(HolesOf(U))
                a == id_assigner[k].val
            IN  /\ assigned[k] = PolicyIds(U, n)
                /\ a.next_id = SetMax(U) + 1 + (IF n > h THEN n - h ELSE 0)
                /\ a.freed_ids.some = (n < h)
                /\ a.freed_ids.val = {HolesOf(U)[i] : i \in (n + 1)..h}
                /\ (U = ScenarioUsed => Agree(assigned[k], ScenarioIds))

\* C1's case: the seven calls of scenario S4 have been made.
C1_Witness ==
    \E k \in Keys : store_ids[k] = Some(ScenarioUsed) /\ assigned[k] = ScenarioIds

\* C2: every id returned for a key differs from the ids of the key's initial bitmap
\* and from the ids returned for the key before, whichever threads made the
\* calls; at most one initializer builds the key's assigner.
C2_DistinctIds ==
    \A k \in Keys :
        /\ \A i, j \in 1..Len(assigned[k]) : i # j => assigned[k][i] # assigned[k][j]
        /\ store_ids[k].some => \A i \in 1..Len(assigned[k]) : assigned[k][i] \notin store_ids[k].val
        /\ builds[k] <= 1

\* C2's case: both threads hold the shared assigner of one key at once, after a
\* failed initializer and with ids of that key already handed out.
C2_Witness ==
    \E k \in Keys :
        /\ \A t \in Threads : id_pc[t] = "got" /\ id_key[t] = k
        /\ Len(assigned[k]) >= 3
        /\ store_ids[k].some
        /\ init_errs = 1

\* ------------------------------------------------------------------------
\* The log comparison on its own
\* ------------------------------------------------------------------------

\* The id-assigner variables while another subsystem runs.
IdIdle ==
    /\ store_ids = [k \in Keys |-> NoneOf({})]
    /\ id_assigner = [k \in Keys |-> NoAssigner]
    /\ id_pc = [t \in Threads |-> "idle"]
    /\ id_key = [t \in Threads |-> NoKey]
    /\ assigned = [k \in Keys |-> <<>>]
    /\ builds = [k \in Keys |-> 0]
    /\ init_errs = 0

CmpInit == CmpInputs /\ IdIdle /\ RaftIdle /\ DrvIdle /\ OrmIdle /\ PushIdle

CmpNext == CmpApply

SpecCmp == CmpInit /\ [][CmpNext]_vars

\* The order on log ids the specification words: NONE ("no entry") is below every
\* real id, and real ids are ordered by term, then by index.
LogGE(a, b) ==
    \/ IsNone(b)
    \/ /\ ~IsNone(a)
       /\ \/ a.term > b.term
          \/ a.term = b.term /\ a.index >= b.index

LogGT(a, b) == LogGE(a, b) /\ a # b

\* A real log id: no component is the sentinel's u64::MAX.
IsReal(id) == id.term # U64_MAX /\ id.index # U64_MAX

\* C4: NONE compares as the smallest log: a candidate whose last log is NONE is
\* behind-or-equal only for a node whose own last log is NONE (and strictly ahead
\* of no node), and every real (term, index) is behind-or-equal, and strictly
\* ahead, for a node whose last log is NONE.
C4_NoneIsSmallest ==
    cmp_out.applied =>
        /\ (IsNone(cmp_cand) /\ cmp_out.behind_or_eq) => IsNone(cmp_local)
        /\ IsNone(cmp_cand) => ~cmp_out.behind
        /\ (IsNone(cmp_local) /\ IsReal(cmp_cand)) => (cmp_out.behind_or_eq /\ cmp_out.behind)

\* C5: log_is_behind_or_eq is reflexive, and it holds both ways exactly between
\* equal log ids, NONE included.
C5_ReflexiveAntisymmetric ==
    cmp_out.applied =>
        /\ (cmp_cand = cmp_local) => cmp_out.behind_or_eq
        /\ (cmp_out.behind_or_eq /\ cmp_out.rev_behind_or_eq) <=> (cmp_cand = cmp_local)

\* C5's case: the comparison has been applied to NONE against NONE and to two
\* different ids of one term; here the first.
C5_Witness ==
    /\ cmp_out.applied
    /\ IsNone(cmp_cand) /\ IsNone(cmp_local)
    /\ cmp_out.behind_or_eq /\ cmp_out.rev_behind_or_eq

\* ------------------------------------------------------------------------
\* Elections in one shard
\* ------------------------------------------------------------------------

\* The nodes of the shard.
Members == DOMAIN cluster

\* Peer::is_offline, as node n sees peer p: a node that is cut off sees every
\* other node offline and is seen offline by them.
IsOffline(n, p) == p \in offline \/ n \in offline

\* Peer.last_log_term / last_log_index in a node's peer table: the peer's last log.
PeerLastLog(p) == IF p \in Members THEN cluster[p].last_log ELSE NONE

\* Cluster::shard_status: the peers of this node's shard, and those of them online.
ShardStatus(n) ==
    [total |-> Cardinality({p \in PeersOf(cluster[n]) : IsInShard(p, cluster[n].shard_id)}),
     healthy |-> Cardinality({p \in PeersOf(cluster[n]) :
                                 IsInShard(p, cluster[n].shard_id) /\ ~IsOffline(n, p)})]

\* Cluster::has_election_quorum
HasElectionQuorum(n) ==
    ShardStatus(n).healthy >= ((ShardStatus(n).total + 1) \div 2)

\* Cluster::start_election, its test of the peers' logs.
SomePeerAhead(n) ==
    \E p \in PeersOf(cluster[n]) :
        /\ IsInShard(p, cluster[n].shard_id)
        /\ ~IsOffline(n, p)
        /\ LogIsBehind(cluster[n].last_log, PeerLastLog(p).term, PeerLastLog(p).index)

\* The peers start_election sends Request::Vote to.
VoteTargets(n) ==
    {p \in PeersOf(cluster[n]) : IsInShard(p, cluster[n].shard_id) /\ ~IsOffline(n, p)}

\* The shards the model starts from, with the last log of each node: three
\* connected nodes (a fresh shard; one node with a log; two logs and none;
\* three logs of one term; two equal logs ahead of the third), three nodes
\* with node 3 cut off (fresh; the cut-off node ahead), and four nodes with
\* node 4 cut off.
StartChoices ==
    {[members |-> {1, 2, 3}, offline |-> {},
      logs |-> <<NONE, NONE, NONE>>],
     [members |-> {1, 2, 3}, offline |-> {},
      logs |-> <<RaftIdOf(1, 1), NONE, NONE>>],
     [members |-> {1, 2, 3}, offline |-> {},
      logs |-> <<RaftIdOf(2, 0), RaftIdOf(1, 1), NONE>>],
     [members |-> {1, 2, 3}, offline |-> {},
      logs |-> <<RaftIdOf(1, 2), RaftIdOf(1, 1), RaftIdOf(1, 0)>>],
     [members |-> {1, 2, 3}, offline |-> {},
      logs |-> <<RaftIdOf(1, 1), RaftIdOf(1, 0), RaftIdOf(1, 1)>>],
     [members |-> {1, 2, 3}, offline |-> {3},
      logs |-> <<NONE, NONE, NONE>>],
     [members |-> {1, 2, 3}, offline |-> {3},
      logs |-> <<RaftIdOf(1, 1), RaftIdOf(1, 1), RaftIdOf(2, 0)>>],
     [members |-> {1, 2, 3, 4}, offline |-> {4},
      logs |-> <<RaftIdOf(2, 0), RaftIdOf(1, 1), NONE, NONE>>]}

\* The election variables as a shard starts from s.
RaftStart(s) ==
    /\ cluster = [n \in s.members |-> NodeInit(n, s.logs[n], s.members)]
    /\ offline = s.offline
    /\ vote_reqs = {}
    /\ vote_resps = {}
    /\ elections = 0
    /\ ev = NoEvent

RaftInit ==
    /\ IdIdle
    /\ CmpIdle
    /\ DrvIdle
    /\ OrmIdle
    /\ PushIdle
    /\ \E s \in StartChoices : RaftStart(s)

\* Cluster::start_election, called when the clock says the election is due
\* (is_election_due): the election_due of a timer state may pass at any moment.
StartElection(n) ==
    /\ RaftFrame
    /\ cluster[n].state.kind \in TimerKinds
    /\ (HasElectionQuorum(n) /\ ~SomePeerAhead(n)) => elections < MaxElections
    /\ IF HasElectionQuorum(n) /\ ~SomePeerAhead(n)
       THEN /\ cluster' = [cluster EXCEPT ![n] = RunForElection(cluster[n])]
            /\ elections' = elections + 1
            /\ vote_reqs' = vote_reqs \cup
                  {[from |-> n, to |-> p, term |-> cluster[n].term + 1,
                    last |-> cluster[n].last_log] : p \in VoteTargets(n)}
       ELSE /\ cluster' = [cluster EXCEPT ![n] = StartElectionTimer(cluster[n])]
            /\ UNCHANGED <<vote_reqs, elections>>
    /\ ev' = [op |-> "start_election", node |-> n]
    /\ UNCHANGED <<vote_resps, offline>>

\* Node n as a handler finds it when it reads the clock: `expired` says that
\* Instant::now() is past the election_due of its state.
AtClock(n, expired) ==
    [cluster[n] EXCEPT !.due = @ \/ (expired /\ cluster[n].state.kind \in TimerKinds)]

\* What a handler of node n leaves in ev: that it found the election_due passed.
ClockEvent(n, expired) ==
    IF expired THEN [op |-> "election_due_passed", node |-> n] ELSE NoEvent

\* The clock matters to a handler only when it steps down from a timer state.
ClockMatters(n, term, expired) ==
    expired => /\ cluster[n].term < term
               /\ cluster[n].state.kind \in TimerKinds
               /\ ~cluster[n].due

\* Node m.to handles the Request::Vote m and answers it.
RecvVoteRequest(m, expired) ==
    /\ RaftFrame
    /\ m \in vote_reqs
    /\ ClockMatters(m.to, m.term, expired)
    /\ LET r == HandleVoteRequest(AtClock(m.to, expired), m.from, m.term, m.last)
       IN  /\ cluster' = [cluster EXCEPT ![m.to] = r.node]
           /\ vote_resps' = vote_resps \cup
                 {[from |-> m.to, to |-> m.from, term |-> r.resp.term,
                   vote_granted |-> r.resp.vote_granted]}
    /\ vote_reqs' = vote_reqs \ {m}
    /\ ev' = ClockEvent(m.to, expired)
    /\ UNCHANGED <<offline, elections>>

\* Node r.to handles the Response::Vote r. The transport may deliver a granted
\* response again, so it stays in flight.
RecvVoteResponse(r, expired) ==
    /\ RaftFrame
    /\ r \in vote_resps
    /\ ClockMatters(r.to, r.term, expired)
    /\ cluster' = [cluster EXCEPT
                      ![r.to] = HandleVoteResponse(AtClock(r.to, expired), r.from, r.term,
                                                   r.vote_granted)]
    /\ vote_resps' = IF r.vote_granted THEN vote_resps ELSE vote_resps \ {r}
    /\ ev' = ClockEvent(r.to, expired)
    /\ UNCHANGED <<vote_reqs, offline, elections>>

\* A candidate handles a granted Response::Vote for its term from a peer of
\* another shard.
StrayVoteResponse(n, p) ==
    /\ RaftFrame
    /\ IsCandidate(cluster[n])
    /\ cluster' = [cluster EXCEPT
                      ![n] = HandleVoteResponse(cluster[n], p, cluster[n].term, TRUE)]
    /\ ev' = NoEvent
    /\ UNCHANGED <<vote_reqs, vote_resps, offline, elections>>

\* Node n handles the leader l's BecomeFollower{term, last_log}: it adopts the
\* leader's term and follows it.
RecvBecomeFollower(n, l) ==
    /\ RaftFrame
    /\ n # l
    /\ cluster[l].state.kind = "Leader"
    /\ ~IsOffline(n, l)
    /\ cluster[n].term <= cluster[l].term
    /\ cluster[n].state # FollowerState(l) \/ cluster[n].term # cluster[l].term
    /\ cluster' = [cluster EXCEPT
                      ![n] = FollowLeader([cluster[n] EXCEPT !.term = cluster[l].term], l)]
    /\ ev' = NoEvent
    /\ UNCHANGED <<vote_reqs, vote_resps, offline, elections>>

RaftNext ==
    \/ \E n \in Members : StartElection(n)
    \/ \E m \in vote_reqs, expired \in BOOLEAN : RecvVoteRequest(m, expired)
    \/ \E r \in vote_resps, expired \in BOOLEAN : RecvVoteResponse(r, expired)
    \/ \E n \in Members, p \in OtherPeers : StrayVoteResponse(n, p)
    \/ \E n \in Members, l \in Members : RecvBecomeFollower(n, l)

Spec == RaftInit /\ [][RaftNext]_vars

\* ---- vote eligibility

\* The peers of node n's shard.
ShardPeers(n) == {p \in PeersOf(cluster[n]) : IsInShard(p, cluster[n].shard_id)}

\* The Response::Vote messages a step has sent.
NewResps == vote_resps' \ vote_resps

\* C3: handle_vote_request grants the vote if and only if, after the node has
\* adopted a higher request term, the request term equals the local term, the
\* node is in Wait or has voted for the same candidate, and the candidate's last
\* log is greater than or equal to the local last log (NONE being the smallest);
\* on a grant the node is VotedFor the candidate; a Leader, Follower or
\* Candidate grants no vote in its own term.
C3_VoteGrantedIff ==
    [][\A m \in vote_reqs :
          (m \notin vote_reqs') =>
             LET nd == cluster[m.to]
                 adopts == nd.term < m.term
                 local_term == IF adopts THEN m.term ELSE nd.term
                 local_state == IF adopts THEN WaitState ELSE nd.state
                 eligible == /\ m.term = local_term
                             /\ \/ local_state.kind = "Wait"
                                \/ local_state = VotedForState(m.from)
                             /\ LogGE(m.last, nd.last_log)
                 granted == \E r \in NewResps : r.vote_granted
             IN  /\ granted <=> eligible
                 /\ granted => /\ cluster'[m.to].state = VotedForState(m.from)
                               /\ [from |-> m.to, to |-> m.from, term |-> m.term,
                                   vote_granted |-> TRUE] \in vote_resps'
                 /\ (nd.state.kind \in {"Leader", "Follower", "Candidate"}
                        /\ m.term = nd.term) => ~granted]_vars

\* ---- counting votes

\* The peers of node n's shard whose granted Response::Vote for n's term has
\* been sent.
GrantersOf(n) ==
    {p \in ShardPeers(n) : [from |-> p, to |-> n, term |-> cluster[n].term,
                            vote_granted |-> TRUE] \in vote_resps}

\* C6: a node becomes Leader only as a Candidate, in its term, when itself plus
\* the distinct peers of its shard that granted it their vote in that term are
\* more than floor((total+1)/2); and a vote is recorded only for a Candidate, in
\* its term, from a peer of its shard that granted it (so a repeated response
\* adds nothing, and a response of a peer outside the shard, for another term,
\* or to a node that is not Candidate is not counted).
C6_LeaderOnlyByMajority ==
    [][\A n \in Members :
          /\ (cluster'[n].state.kind = "Leader" /\ cluster[n].state.kind # "Leader") =>
                /\ IsCandidate(cluster[n])
                /\ cluster'[n].term = cluster[n].term
                /\ 1 + Cardinality(GrantersOf(n))
                      > ((Cardinality(ShardPeers(n)) + 1) \div 2)
          /\ \A p \in PeersOf(cluster[n]) :
                (cluster'[n].vote_granted[p] /\ ~cluster[n].vote_granted[p]) =>
                   /\ IsCandidate(cluster[n])
                   /\ cluster'[n].term = cluster[n].term
                   /\ IsCandidate(cluster'[n])
                   /\ p \in GrantersOf(n)]_vars

\* C6's case: in a shard of four, a node has been elected with the votes of two
\* peers, one vote not being enough.
C6_Witness ==
    \E n \in Members :
        /\ Cardinality(Members) = 4
        /\ cluster[n].state.kind = "Leader"
        /\ Cardinality(GrantersOf(n)) = 2

\* ---- starting an election

\* C7: start_election makes the node Candidate, with its term incremented and
\* vote requests sent, only if the shard has an election quorum and no peer of
\* the shard has a strictly greater last log than the node; in every other case
\* the node is in Wait with a fresh timer, its term is unchanged and no vote
\* request is sent.
C7_StartElectionOnlyIfAhead ==
    [][\A n \in Members :
          (ev'.op = "start_election" /\ ev'.node = n) =>
             LET may_run ==
                    /\ ShardStatus(n).healthy >= ((ShardStatus(n).total + 1) \div 2)
                    /\ ~\E p \in ShardPeers(n) : LogGT(PeerLastLog(p), cluster[n].last_log)
             IN  /\ IsCandidate(cluster'[n]) => may_run
                 /\ (IsCandidate(cluster'[n]) /\ may_run) =>
                       /\ cluster'[n].term = cluster[n].term + 1
                       /\ vote_reqs' # vote_reqs
                 /\ ~may_run => /\ cluster'[n].state = WaitState
                                /\ ~cluster'[n].due
                                /\ cluster'[n].term = cluster[n].term
                                /\ vote_reqs' = vote_reqs]_vars

\* ---- election liveness

\* The election variables of a partition-free shard with quorum.
RaftLiveInit ==
    /\ IdIdle
    /\ CmpIdle
    /\ DrvIdle
    /\ OrmIdle
    /\ PushIdle
    /\ \E s \in StartChoices : s.offline = {} /\ RaftStart(s)

\* Nothing is left for the transport to deliver but granted responses that
\* their receivers have already counted or have no use for.
Quiet ==
    /\ vote_reqs = {}
    /\ \A r \in vote_resps :
          /\ r.vote_granted
          /\ HandleVoteResponse(cluster[r.to], r.from, r.term, TRUE) = cluster[r.to]

\* start_election when an election timer interval (a second and more) is longer
\* than the transport takes: the timer fires once the messages are delivered.
TimedStartElection(n) == Quiet /\ StartElection(n)

RaftLiveNext ==
    \/ \E n \in Members : TimedStartElection(n)
    \/ \E m \in vote_reqs, expired \in BOOLEAN : RecvVoteRequest(m, expired)
    \/ \E r \in vote_resps, expired \in BOOLEAN : RecvVoteResponse(r, expired)
    \/ \E n \in Members, p \in OtherPeers : StrayVoteResponse(n, p)
    \/ \E n \in Members, l \in Members : RecvBecomeFollower(n, l)

\* Every node's election timer fires eventually, and the transport delivers.
RaftFair ==
    /\ \A n \in ShardNodes : WF_vars(n \in Members /\ TimedStartElection(n))
    /\ WF_vars(\E m \in vote_reqs, expired \in BOOLEAN : RecvVoteRequest(m, expired))
    /\ WF_vars(\E r \in vote_resps, expired \in BOOLEAN : RecvVoteResponse(r, expired))
    /\ WF_vars(\E n \in Members, l \in Members : RecvBecomeFollower(n, l))

SpecLive == RaftLiveInit /\ [][RaftLiveNext]_vars /\ RaftFair

\* Node n's last log is strictly greater than every other node's.
StrictlyMostUpToDate(n) ==
    /\ n \in Members
    /\ \A p \in Members \ {n} : LogGT(cluster[n].last_log, cluster[p].last_log)

\* C8: in a partition-free shard with quorum, the node whose log is strictly
\* more up to date than every other node's is eventually elected leader.
C8_MostUpToDateIsElected ==
    \A n \in ShardNodes :
        StrictlyMostUpToDate(n) ~> (n \in Members /\ cluster[n].state.kind = "Leader")

\* ------------------------------------------------------------------------
\* Leader replication driver: the task and what surrounds it
\* ------------------------------------------------------------------------

\* How often the follower is cut off.
MaxOutages == 1

\* The leader's log as the task is spawned: (last_log.index, uncommitted_index).
LeaderStarts == {<<LogIndexMax, LogIndexMax>>, <<0, 0>>, <<0, 1>>}

\* spawn_raft_leader: the task starts in State::BecomeLeader with
\* follower_last_index = LogIndex::MAX and the leader's term and indexes.
DrvStart(l, gate, follower_index) ==
    /\ drv = DriverOf(1, IF l[1] = LogIndexMax THEN NONE ELSE RaftIdOf(1, l[1]), l[2], gate)
    /\ log_index_rx = LogIndexRx(l[1], l[2], FALSE, FALSE)
    /\ online_rx = OnlineRx(TRUE, FALSE, FALSE)
    /\ request = NoReq
    /\ response = NoResp
    /\ main_tx = NoMain
    /\ main_rx_open = TRUE
    /\ init_tx = "unset"
    /\ peer = PeerOf(follower_index)

DrvInit ==
    /\ IdIdle
    /\ CmpIdle
    /\ RaftIdle
    /\ OrmIdle
    /\ PushIdle
    /\ \E l \in LeaderStarts, gate \in BOOLEAN : DrvStart(l, gate, LogIndexMax)

\* The task continues at the top of its loop unless the outcome took it
\* elsewhere.
Resume(d) == IF d.pc = "rpc" THEN [d EXCEPT !.pc = "loop"] ELSE d

\* One turn of the loop up to send_request: the poll, the dispatch on the
\* state and the send over peer_tx. State::Wait blocks on the log indexes.
DriverLoop(Oks) ==
    /\ DrvFrame
    /\ drv.pc = "loop"
    /\ log_index_rx' = Seen(log_index_rx)
    /\ main_tx' = NoMain
    /\ LET p == PollLogIndex(drv, log_index_rx)
       IN  IF p.pc = "exit"
           THEN drv' = p /\ request' = NoReq
           ELSE IF p.state.kind = "Wait"
           THEN drv' = [p EXCEPT !.pc = "wait"] /\ request' = NoReq
           ELSE \E store_ok \in Oks :
                   LET o == Dispatch(p, store_ok)
                   IN  IF o.drv.pc = "exit"
                       THEN drv' = o.drv /\ request' = NoReq
                       ELSE IF ~peer.tx_open
                       THEN drv' = Exited(o.drv) /\ request' = NoReq
                       ELSE drv' = [o.drv EXCEPT !.pc = "rpc"] /\ request' = o.req
    /\ response' = NoResp
    /\ UNCHANGED <<online_rx, init_tx, main_rx_open, peer>>

\* State::Wait: log_index_rx.changed().await returns.
DriverWake ==
    /\ DrvFrame
    /\ drv.pc = "wait"
    /\ log_index_rx.changed \/ log_index_rx.closed
    /\ IF log_index_rx.changed
       THEN drv' = [RefreshLogIndex(drv, log_index_rx) EXCEPT
                       !.state = AppendLogsSt({}), !.pc = "loop"]
       ELSE drv' = Exited(drv)
    /\ log_index_rx' = Seen(log_index_rx)
    /\ main_tx' = NoMain
    /\ response' = NoResp
    /\ UNCHANGED <<online_rx, request, init_tx, main_rx_open, peer>>

\* A variant of the response handling that does not wait for the request to
\* be resolved: the request stays out while the task goes on.
DriverRespondKeepRequest(resp) ==
    /\ DrvFrame
    /\ drv.pc = "rpc"
    /\ request # NoReq
    /\ request' = request
    /\ response' = resp
    /\ LET o == OnResponse(drv, resp)
       IN  /\ drv' = Resume(o.drv)
           /\ main_tx' = o.main
    /\ UNCHANGED <<log_index_rx, init_tx, main_rx_open>>

\* send_request returns resp, and the task acts on it; `response` keeps the
\* response of the last turn until the next one. What the exchange does to
\* the peer and to online_rx is the caller's.
DriverRespond(resp) ==
    /\ DrvFrame
    /\ drv.pc = "rpc"
    /\ request # NoReq
    /\ request' = NoReq
    /\ response' = resp
    /\ LET o == OnResponse(drv, resp)
       IN  /\ drv' = Resume(o.drv)
           /\ main_tx' = o.main
    /\ UNCHANGED <<log_index_rx, init_tx, main_rx_open>>

\* The init gate of a first Match: init_rx.changed().await returns, and the
\* task goes on with the Match only if the leader's init succeeded.
DriverInitGate ==
    /\ DrvFrame
    /\ drv.pc = "init"
    /\ init_tx # "unset"
    /\ LET o == IF init_tx = "ok"
                THEN OnMatch([drv EXCEPT !.pc = "rpc"], response)
                ELSE Outcome(Exited(drv), NoMain)
       IN  /\ drv' = Resume(o.drv)
           /\ main_tx' = o.main
    /\ UNCHANGED <<log_index_rx, online_rx, request, response, init_tx, main_rx_open, peer>>

\* The online-wait, log_index_rx branch of the select.
OnlineLogIndex ==
    /\ DrvFrame
    /\ drv.pc = "online"
    /\ log_index_rx.changed \/ log_index_rx.closed
    /\ IF log_index_rx.changed
       THEN drv' = RefreshLogIndex(drv, log_index_rx)
       ELSE drv' = Exited(drv)
    /\ log_index_rx' = Seen(log_index_rx)
    /\ main_tx' = NoMain
    /\ response' = NoResp
    /\ UNCHANGED <<online_rx, request, init_tx, main_rx_open, peer>>

\* The online-wait, online_rx branch of the select.
OnlinePeer ==
    /\ DrvFrame
    /\ drv.pc = "online"
    /\ online_rx.changed \/ online_rx.closed
    /\ IF online_rx.changed
       THEN drv' = IF online_rx.online
                   THEN [drv EXCEPT !.state = BecomeLeaderSt, !.pc = "loop"]
                   ELSE drv
       ELSE drv' = Exited(drv)
    /\ online_rx' = Seen(online_rx)
    /\ main_tx' = NoMain
    /\ response' = NoResp
    /\ UNCHANGED <<log_index_rx, request, init_tx, main_rx_open, peer>>

\* ---- the leader's side, for as long as the task is there to see it

Running == drv.pc # "exit"

\* The coordinator appends an entry or commits what it has, and sends the
\* indexes over the watch: the values never go down.
LogIndexSend ==
    /\ DrvFrame
    /\ Running
    /\ ~log_index_rx.closed
    /\ \E append \in BOOLEAN :
          IF append
          THEN /\ WrappingAdd1(log_index_rx.uncommitted_index) <= MaxIndex
               /\ log_index_rx' = [log_index_rx EXCEPT
                     !.uncommitted_index = WrappingAdd1(@), !.changed = TRUE]
          ELSE /\ log_index_rx.last_log_index # log_index_rx.uncommitted_index
               /\ log_index_rx' = [log_index_rx EXCEPT
                     !.last_log_index = log_index_rx.uncommitted_index, !.changed = TRUE]
    /\ UNCHANGED <<drv, online_rx, request, response, main_tx, init_tx, main_rx_open, peer>>

\* The node stops leading: the sender of the log indexes is dropped. The task
\* can tell only where it looks at the watch, so the drop is taken there.
LeaderEnd ==
    /\ DrvFrame
    /\ drv.pc \in {"loop", "wait", "online"}
    /\ ~log_index_rx.closed
    /\ log_index_rx' = [log_index_rx EXCEPT !.closed = TRUE]
    /\ UNCHANGED <<drv, online_rx, request, response, main_tx, init_tx, main_rx_open, peer>>

\* The leader's init ends, well or not, as far as the task can tell: the
\* gate is looked at only by a task that waits at it.
InitDone(ok) ==
    /\ DrvFrame
    /\ drv.pc = "init"
    /\ init_tx = "unset"
    /\ init_tx' = IF ok THEN "ok" ELSE "failed"
    /\ UNCHANGED <<drv, log_index_rx, online_rx, request, response, main_tx, main_rx_open, peer>>

\* ---- the peer's side, open: any response may come back

\* The changes an Update response may carry.
UpdateChoices ==
    { [inserts |-> {}, updates |-> {}, deletes |-> {7, 9}],
      [inserts |-> {3}, updates |-> {}, deletes |-> {}] }

\* What the leader's store answers to get_raft_match_indexes(min_index): an
\* error, no index, its indexes from min_index on (all of term 1), or those
\* after min_index when it has no entry at min_index.
LocalMatches(rx, min_index) ==
    { NoLocalMatch,
      [ok |-> TRUE, term |-> 1, indexes |-> {}],
      [ok |-> TRUE, term |-> 1,
       indexes |-> {i \in LogIndexes : rx.uncommitted_index # LogIndexMax
                                        /\ min_index <= i /\ i <= rx.uncommitted_index}],
      [ok |-> TRUE, term |-> 1,
       indexes |-> {i \in LogIndexes : rx.uncommitted_index # LogIndexMax
                                        /\ min_index < i /\ i <= rx.uncommitted_index}] }

\* What the leader's store answers to get_next_raft_id(match_log).
NextRaftIds(rx, match_log) ==
    {"none", "err"}
    \cup (IF rx.uncommitted_index # LogIndexMax THEN {"other"} ELSE {})
    \cup (IF rx.uncommitted_index # LogIndexMax /\ match_log.index <= rx.uncommitted_index
          THEN {"same"} ELSE {})

\* A log given by its term vector (get_match_terms: the RaftId of the first
\* entry of every term) and its last index: the term of the entry at index i.
TermAt(terms, i) ==
    terms[SetMax({k \in 1..Len(terms) : terms[k].index <= i})].term

\* get_match_indexes(min_index) on such a log: the term at min_index and the
\* indexes from min_index on whose entries have that term.
GetMatchIndexes(terms, last_index, min_index) ==
    [ok |-> TRUE,
     term |-> TermAt(terms, min_index),
     indexes |-> {i \in min_index..last_index :
                     TermAt(terms, i) = TermAt(terms, min_index)}]

\* The logs of scenario S5: the leader's term vector and last index, and the
\* follower's term vector. The follower's answer of the scenario is offered
\* while the leader's log is at its longest.
ScenarioLeaderTerms == <<RaftIdOf(1, 0), RaftIdOf(2, 5), RaftIdOf(3, 8)>>

ScenarioLeaderLast == 8

ScenarioFollowerTerms == <<RaftIdOf(1, 0), RaftIdOf(3, 7)>>

\* The index bitmap the follower of the scenario answers with: the indexes of
\* its term vector.
ScenarioFollowerIndexes ==
    {ScenarioFollowerTerms[k].index : k \in 1..Len(ScenarioFollowerTerms)}

MatchResponses(rx) ==
    {[ResponseOf("Match") EXCEPT !.match_log = NONE]}
    \cup {[ResponseOf("Match") EXCEPT !.match_log = m, !.next_raft_id = x] :
            m \in {RaftIdOf(1, i) : i \in 0..1}, x \in {"same", "other", "none", "err"}}

SynchronizeResponses(rx) ==
    {ResponseOf("Synchronize"),
     [ResponseOf("Synchronize") EXCEPT !.match_indexes = "malformed"],
     [ResponseOf("Synchronize") EXCEPT !.match_indexes = "some"]}
    \cup {[ResponseOf("Synchronize") EXCEPT
              !.match_indexes = "some", !.indexes = b, !.local_match = l] :
            b \in {{0, 2}, {0, 1, 2}}, l \in LocalMatches(rx, 0)}
    \cup (IF rx.uncommitted_index = MaxIndex
          THEN {[ResponseOf("Synchronize") EXCEPT
                    !.match_indexes = "some", !.indexes = ScenarioFollowerIndexes,
                    !.local_match = GetMatchIndexes(ScenarioLeaderTerms, ScenarioLeaderLast,
                                                    SetMin(ScenarioFollowerIndexes))]}
          ELSE {})

OpenResponses(rx) ==
    {[ResponseOf("StepDown") EXCEPT !.term = 2],
     ResponseOf("None"), ResponseOf("UnregisteredPeer"), ResponseOf("Continue")}
    \cup {ResponseOf(k) : k \in UnexpectedKinds}
    \cup {r \in MatchResponses(rx) :
            IsNone(r.match_log) \/ r.next_raft_id \in NextRaftIds(rx, r.match_log)}
    \cup SynchronizeResponses(rx)
    \cup {[ResponseOf("Done") EXCEPT !.up_to_index = i] : i \in LogIndexes \cup {LogIndexMax}}
    \cup {[ResponseOf("Update") EXCEPT !.changes_ok = FALSE]}
    \cup {[ResponseOf("Update") EXCEPT !.changes = c, !.is_rollback = b] :
            c \in UpdateChoices, b \in BOOLEAN}
    \cup {[ResponseOf("FetchBlobs") EXCEPT !.blob_ids = b] : b \in {{}, {1, 2}}}

\* The exchange with a peer that may answer anything. With no answer the rpc
\* task may report the peer offline.
OpenExchange(resp) ==
    /\ DriverRespond(resp)
    /\ peer' = peer
    /\ \E report \in BOOLEAN :
          online_rx' = IF resp.kind = "None" /\ report /\ ~online_rx.closed
                       THEN OnlineRx(FALSE, TRUE, FALSE)
                       ELSE online_rx

\* The rpc task reaches the peer again and reports it online.
PeerOnline ==
    /\ DrvFrame
    /\ Running
    /\ ~online_rx.closed
    /\ ~online_rx.online
    /\ online_rx' = OnlineRx(TRUE, TRUE, FALSE)
    /\ UNCHANGED <<drv, log_index_rx, request, response, main_tx, init_tx, main_rx_open, peer>>

\* The rpc task of the peer ends: peer_tx loses its receiver and online_rx
\* its sender. The task can tell only at a send or in the online-wait, so the
\* end is taken there.
PeerRpcEnd ==
    /\ DrvFrame
    /\ drv.pc \in {"loop", "online"}
    /\ peer.tx_open
    /\ peer' = [peer EXCEPT !.tx_open = FALSE]
    /\ online_rx' = [online_rx EXCEPT !.closed = TRUE]
    /\ UNCHANGED <<drv, log_index_rx, request, response, main_tx, init_tx, main_rx_open>>

\* The coordinator ends and drops the receiver of main_tx, while the sender
\* of the log indexes is still held: what is sent over main_tx from then on
\* is lost. The task can tell only at a send over main_tx, which follows a
\* response, so the end is taken while a request is out.
CoordinatorEnd ==
    /\ DrvFrame
    /\ drv.pc = "rpc"
    /\ main_rx_open
    /\ main_rx_open' = FALSE
    /\ UNCHANGED <<drv, log_index_rx, online_rx, request, response, main_tx, init_tx, peer>>

DrvNext ==
    \/ DriverLoop(BOOLEAN)
    \/ DriverWake
    \/ \E resp \in OpenResponses(log_index_rx) : OpenExchange(resp)
    \/ DriverInitGate
    \/ OnlineLogIndex
    \/ OnlinePeer
    \/ LogIndexSend
    \/ LeaderEnd
    \/ \E ok \in BOOLEAN : InitDone(ok)
    \/ PeerOnline
    \/ PeerRpcEnd
    \/ CoordinatorEnd

SpecDriver == DrvInit /\ [][DrvNext]_vars

\* ---- rollback replication

\* The task has just acted on an Update response whose changes deserialized.
ActedOnUpdate ==
    /\ drv.pc = "loop"
    /\ response.kind = "Update"
    /\ response.changes_ok

\* C10: on an Update response the driver moves the deletes into the inserts
\* and clears the deletes if is_rollback is true, and passes the inserts,
\* updates and deletes to AppendChanges as received if it is false.
C10_RollbackMovesDeletes ==
    ActedOnUpdate =>
        drv.state = AppendChangesSt(
            IF response.is_rollback
            THEN [response.changes EXCEPT !.inserts = response.changes.deletes,
                                          !.deletes = {}]
            ELSE response.changes,
            response.is_rollback)

\* ---- replication liveness

\* A follower whose log is a prefix of the leader's: nothing, or entries up to
\* one the leader has.
FollowerStarts(l) ==
    {LogIndexMax} \cup {i \in LogIndexes : l[2] # LogIndexMax /\ i <= l[2]}

DrvLiveInit ==
    /\ IdIdle
    /\ CmpIdle
    /\ RaftIdle
    /\ OrmIdle
    /\ PushIdle
    /\ \E l \in LeaderStarts, gate \in BOOLEAN :
          \E f \in FollowerStarts(l) : DrvStart(l, gate, f)

\* The answer of a follower that keeps to the protocol, and the last index
\* of its log afterwards: Match with its last log to BecomeFollower; Continue
\* or Done to an Update, whose entries it appends; Done to the rest.
Answer(resp, last_index) == [resp |-> resp, last_index |-> last_index]

FollowerAnswers(req, p) ==
    CASE req.kind = "BecomeFollower" ->
            {Answer([ResponseOf("Match") EXCEPT
                        !.match_log = IF p.last_index = LogIndexMax THEN NONE
                                      ELSE RaftIdOf(req.term, p.last_index)],
                    p.last_index)}
      [] req.kind = "Update" ->
            LET last_index == IF req.updates = {} THEN p.last_index
                              ELSE SetMax(req.updates)
            IN  {Answer(ResponseOf("Continue"), last_index),
                 Answer([ResponseOf("Done") EXCEPT !.up_to_index = last_index],
                        last_index)}
      [] OTHER ->
            {Answer([ResponseOf("Done") EXCEPT !.up_to_index = p.last_index],
                    p.last_index)}

\* The exchange with the follower while it can be reached.
FollowerExchange ==
    /\ peer.reachable
    /\ \E a \in FollowerAnswers(request, peer) :
          /\ DriverRespond(a.resp)
          /\ peer' = [peer EXCEPT !.last_index = a.last_index]
    /\ online_rx' = online_rx

\* The exchange while it cannot: no answer, and the rpc task reports the
\* peer offline.
RpcFail ==
    /\ ~peer.reachable
    /\ DriverRespond(ResponseOf("None"))
    /\ peer' = peer
    /\ online_rx' = OnlineRx(FALSE, TRUE, FALSE)

\* The follower is cut off.
PeerDown ==
    /\ DrvFrame
    /\ Running
    /\ peer.reachable
    /\ peer.outages < MaxOutages
    /\ peer' = [peer EXCEPT !.reachable = FALSE, !.outages = @ + 1]
    /\ UNCHANGED <<drv, log_index_rx, online_rx, request, response, main_tx, init_tx, main_rx_open>>

\* The follower can be reached again: the rpc task reports it online if it
\* had reported it offline.
PeerUp ==
    /\ DrvFrame
    /\ Running
    /\ ~peer.reachable
    /\ peer' = [peer EXCEPT !.reachable = TRUE]
    /\ online_rx' = IF online_rx.online THEN online_rx ELSE OnlineRx(TRUE, TRUE, FALSE)
    /\ UNCHANGED <<drv, log_index_rx, request, response, main_tx, init_tx, main_rx_open>>

\* The node goes on leading, its init succeeds and its store answers.
DrvLiveNext ==
    \/ DriverLoop({TRUE})
    \/ DriverWake
    \/ FollowerExchange
    \/ RpcFail
    \/ DriverInitGate
    \/ OnlineLogIndex
    \/ OnlinePeer
    \/ LogIndexSend
    \/ InitDone(TRUE)
    \/ PeerDown
    \/ PeerUp

\* The task is scheduled whenever it can run, every request gets its answer
\* or its failure, and the init gate is resolved.
DrvFair ==
    /\ WF_vars(DriverLoop({TRUE}))
    /\ WF_vars(DriverWake)
    /\ WF_vars(FollowerExchange)
    /\ WF_vars(RpcFail)
    /\ WF_vars(DriverInitGate)
    /\ WF_vars(OnlineLogIndex)
    /\ WF_vars(OnlinePeer)
    /\ WF_vars(InitDone(TRUE))

SpecDriverLive == DrvLiveInit /\ [][DrvLiveNext]_vars /\ DrvFair

\* The driver rests in State::Wait with the follower at the leader's
\* uncommitted index.
Settled ==
    /\ drv.state.kind = "Wait"
    /\ drv.follower_last_index = log_index_rx.uncommitted_index

\* C9: once the leader's uncommitted index has stopped changing (the log is
\* bounded, so it does) and the follower stays reachable, the driver's
\* follower_last_index comes to equal uncommitted_index and the driver settles
\* in State::Wait for good.
C9_ReplicationSettles == (<>[]peer.reachable) => <>[]Settled

\* A follower that was cut off and came back has been brought up to the
\* leader's last entry, and the driver waits.
C9_Witness ==
    /\ Settled
    /\ drv.pc = "wait"
    /\ peer.reachable
    /\ peer.outages = MaxOutages
    /\ log_index_rx.uncommitted_index = MaxIndex
    /\ peer.last_index = MaxIndex

\* ---- termination of the driver

\* A step of the task itself.
TaskStep == drv' # drv

\* A send over a peer channel that has lost its receiver ends the task, unless
\* the turn stops in State::Wait before it sends.
EndsOnPeerClosed ==
    (drv.pc = "loop" /\ ~peer.tx_open /\ TaskStep)
        => (drv'.pc = "exit" \/ drv'.pc = "wait") /\ request' = NoReq

\* A send over a coordinator channel that has lost its receiver ends the task.
EndsOnCoordinatorClosed ==
    (TaskStep /\ main_tx' # NoMain /\ ~main_rx_open) => drv'.pc = "exit"

\* A Match with a match_log that has no successor in the leader's log ends
\* the task.
EndsOnInconsistency ==
    (/\ TaskStep
     /\ drv.pc \in {"rpc", "init"}
     /\ drv'.pc # "init"
     /\ response'.kind = "Match"
     /\ ~IsNone(response'.match_log)
     /\ response'.next_raft_id = "none")
        => drv'.pc = "exit"

\* A StepDown response is forwarded to the coordinator and ends the task.
EndsOnStepDown ==
    (TaskStep /\ drv.pc = "rpc" /\ response'.kind = "StepDown")
        => /\ drv'.pc = "exit"
           /\ main_tx' = MainEventOf("StepDown", response'.term, LogIndexMax)

\* Looking at a log-index watch whose sender is gone, with no value left to
\* read, ends the task.
EndsOnWatchDropped ==
    (/\ TaskStep
     /\ log_index_rx.closed
     /\ ~log_index_rx.changed
     /\ \/ drv.pc \in {"loop", "wait"}
        \/ drv.pc = "online" /\ online_rx' = online_rx)
        => drv'.pc = "exit"

\* A task that has ended stays so and has no request out.
NoRequestAfterExit ==
    drv.pc = "exit" => drv' = drv /\ request = NoReq /\ request' = NoReq

\* C11: the driver terminates on a closed peer channel, on a closed
\* coordinator channel, on a fatal log inconsistency, on a StepDown response
\* (which it first forwards to the coordinator) and on a dropped log-index
\* sender, and sends no request after it has terminated.
C11_TerminatesOnEachCondition ==
    [][/\ EndsOnPeerClosed
       /\ EndsOnCoordinatorClosed
       /\ EndsOnInconsistency
       /\ EndsOnStepDown
       /\ EndsOnWatchDropped
       /\ NoRequestAfterExit]_vars

\* ---- one request at a time

\* C12: the driver has at most one request out to its follower: a request is
\* out only while the task awaits its response, a new one is sent only when
\* none is out, and a response is applied to the request that is out, which
\* it resolves.
C12_OneOutstandingRequest ==
    [][/\ (request # NoReq) => drv.pc = "rpc"
       /\ (request' # NoReq /\ request' # request) => request = NoReq
       /\ (drv.pc = "rpc" /\ TaskStep) => (request # NoReq /\ request' = NoReq)
       /\ (request' # NoReq) => drv'.pc = "rpc"]_vars

\* A second request is out after the first was answered.
C12_Witness ==
    /\ drv.pc = "rpc"
    /\ request.kind = "AdvanceCommitIndex"
    /\ peer.tx_open

\* ------------------------------------------------------------------------
\* The merge engine as a state machine: a document's stored ORM and index,
\* and calls of merge / merge_validate with the caller's commit
\* (components/jmap_mail/src/mail/set.rs 482)
\* ------------------------------------------------------------------------

Text(s) == ValueOf("Text", <<s>>)

Integer(n) == ValueOf("Integer", <<n>>)

TextList(items) == ValueOf("TextList", items)

IntegerList(items) == ValueOf("IntegerList", items)

Null == ValueOf("Null", <<>>)

\* The values a caller sets each property to (Absent: it does not set it).
SubjectValues ==
    {Absent, Text(""), Text("x"), Integer("3"), IntegerList(<<"1", "2">>),
     IntegerList(<<"2", "3">>), Opaque}

KeywordsValues ==
    {Absent, TextList(<<"a", "b">>), TextList(<<"b", "c">>), TextList(<<"a", "a">>)}

NoteValues == {Absent, Text(""), Text("x")}

TagMaps ==
    {NoTags, [p \in {"keywords"} |-> {"t1", "t2"}], [p \in {"keywords"} |-> {"t2", "t3"}]}

AclOf(id, rights) == [id |-> id, rights |-> rights]

AclLists == {<<>>, <<AclOf("u1", "r")>>, <<AclOf("u1", "rw")>>}

\* The ORMs a caller builds and hands to merge: every setting of the
\* properties without tags and ACLs, two settings of the properties with
\* every tag map and ACL list, and the stored ORM itself.
PropertyChanges ==
    {OrmOf([subject |-> s, keywords |-> k, note |-> n], NoTags, <<>>) :
        s \in SubjectValues, k \in KeywordsValues, n \in NoteValues}

TaggedProperties ==
    {NewOrm.properties,
     [subject |-> Text("x"), keywords |-> TextList(<<"b", "c">>), note |-> Absent]}

TaggedChanges ==
    {OrmOf(p, t, a) : p \in TaggedProperties, t \in TagMaps, a \in AclLists}

Changes(self) == PropertyChanges \cup TaggedChanges \cup {self}

\* The text and number entries index_as() gives for the properties of an
\* ORM: what the index of a document holds for its indexed properties.
IndexOf(properties) ==
    UNION {{[field |-> FieldOf(IndexAs(properties[p]).kind), property |-> p,
             value |-> IndexAs(properties[p]).items[i]] :
                i \in 1..Len(IndexAs(properties[p]).items)} : p \in Indexed}

\* The mutations of the indexed properties among the mutations of a call.
PropertyOps(ops) == SelectSeq(ops, LAMBDA m : m.field \in {"text", "number"})

\* A document as the store holds it before the first call: no property yet,
\* the ACLs it was created with.
OrmInit ==
    /\ orm \in {OrmOf(NewOrm.properties, NoTags, a) : a \in AclLists}
    /\ orm_changes = NewOrm
    /\ document = EmptyDocument
    /\ merged = NotCalled
    /\ orm_index = {}
    /\ IdIdle
    /\ CmpIdle
    /\ RaftIdle
    /\ DrvIdle
    /\ PushIdle

\* merge.rs 265-270 and the caller's commit: with changes, insert_orm
\* serializes self into the document and the call returns true, or fails
\* with the store's error; the caller then commits the document, which
\* replaces the stored ORM and applies the index mutations.  Without
\* changes the call returns false and nothing is written.
Finish(op, m, new, ok) ==
    /\ orm_changes' = new
    /\ IF m.has_changes
       THEN IF ok
            THEN /\ document' = DocumentOf(m.ops, Some(m.orm))
                 /\ merged' = OkTrue(op)
                 /\ orm' = m.orm
                 /\ orm_index' = Commit(orm_index, PropertyOps(m.ops))
            ELSE /\ document' = DocumentOf(m.ops, NoOrm)
                 /\ merged' = StoreErr(op)
                 /\ UNCHANGED <<orm, orm_index>>
       ELSE /\ ok
            /\ document' = DocumentOf(m.ops, NoOrm)
            /\ merged' = OkFalse(op)
            /\ UNCHANGED <<orm, orm_index>>

\* TinyORM::merge(self = the stored ORM, document, changes = new).
MergeCall(new, ok) ==
    /\ merged = NotCalled
    /\ Finish("merge", Merge(orm, new), new, ok)
    /\ OrmFrame

\* A merge_validate that merges first and looks at the required properties
\* afterwards: the mutations are in the document when the gate fails.
MergeValidateMergesFirst(new, ok) ==
    /\ merged = NotCalled
    /\ LET failed == RequiredGate(Required, orm, new)
       IN  IF failed # <<>>
           THEN /\ ok
                /\ orm_changes' = new
                /\ document' = DocumentOf(Merge(orm, new).ops, NoOrm)
                /\ merged' = InvalidProperty(failed[1])
                /\ UNCHANGED <<orm, orm_index>>
           ELSE Finish("merge_validate", Merge(orm, new), new, ok)
    /\ OrmFrame

\* TinyORM::merge_validate(self = the stored ORM, document, changes = new).
MergeValidateCall(new, ok) ==
    /\ merged = NotCalled
    /\ LET failed == RequiredGate(Required, orm, new)
       IN  IF failed # <<>>
           THEN /\ ok
                /\ orm_changes' = new
                /\ document' = EmptyDocument
                /\ merged' = InvalidProperty(failed[1])
                /\ UNCHANGED <<orm, orm_index>>
           ELSE Finish("merge_validate", Merge(orm, new), new, ok)
    /\ OrmFrame

\* The operation is over; the next one reads the stored ORM and starts with
\* a Document of its own.
NextOperation ==
    /\ merged # NotCalled
    /\ orm_changes' = NewOrm
    /\ document' = EmptyDocument
    /\ merged' = NotCalled
    /\ UNCHANGED <<orm, orm_index>>
    /\ OrmFrame

MergeNext ==
    \/ \E new \in Changes(orm), ok \in BOOLEAN : MergeCall(new, ok)
    \/ \E new \in Changes(orm), ok \in BOOLEAN : MergeValidateCall(new, ok)
    \/ NextOperation

SpecMerge == OrmInit /\ [][MergeNext]_vars

\* ------------------------------------------------------------------------
\* Properties of the merge engine
\* ------------------------------------------------------------------------

\* The step is a call of merge or merge_validate: P is orm, N is
\* orm_changes', the mutations are document'.ops.
CallStep == merged = NotCalled /\ merged' # NotCalled

\* The mutations a call wrote for one property, for one kind of field.
OpsOf(ops, fields, property) ==
    SelectSeq(ops, LAMBDA m : m.field \in fields /\ m.property = property)

\* C13: merge(P, P) adds no mutation to the document, serializes nothing
\* into it and returns false; and in any call, a property N sets to the
\* value P holds, a tag set of N equal to P's for the same property and an
\* ACL list equal to P's contribute no mutation.
C13_EqualPartsEmitNothing ==
    [][CallStep =>
        /\ (merged'.op = "merge" /\ orm_changes' = orm) =>
              /\ document' = EmptyDocument
              /\ merged' = OkFalse("merge")
              /\ orm' = orm
        /\ \A p \in DOMAIN orm.properties :
              (orm_changes'.properties[p] # Absent
               /\ orm_changes'.properties[p] = orm.properties[p]) =>
                  OpsOf(document'.ops, {"text", "number"}, p) = <<>>
        /\ \A p \in DOMAIN orm.tags \cap DOMAIN orm_changes'.tags :
              orm_changes'.tags[p] = orm.tags[p] =>
                  OpsOf(document'.ops, {"tag"}, p) = <<>>
        /\ orm_changes'.acls = orm.acls =>
              OpsOf(document'.ops, {"acl"}, "acl") = <<>>]_vars

\* merge(P, P) has returned for a P with properties, tags and ACLs, and
\* with a list among its indexed properties.
C13_Witness ==
    /\ merged = OkFalse("merge")
    /\ orm_changes = orm
    /\ orm.properties["subject"] # Absent
    /\ orm.properties["keywords"] # Absent
    /\ orm.tags # NoTags
    /\ orm.acls # <<>>

\* The step is a call that ran merge(): every call but a merge_validate
\* that failed on the required gate.
MergeStep == CallStep /\ merged'.kind # "InvalidProperty"

ListKinds == {"TextList", "IntegerList"}

ItemsOf(value) == {value.items[i] : i \in 1..Len(value.items)}

\* The values a call cleared, and the values it added, for one property.
Cleared(ops, p) ==
    LET of == OpsOf(ops, {"text", "number"}, p)
    IN  {of[i].value : i \in {j \in 1..Len(of) : of[j].clear}}

Added(ops, p) ==
    LET of == OpsOf(ops, {"text", "number"}, p)
    IN  {of[i].value : i \in {j \in 1..Len(of) : ~of[j].clear}}

\* C14: when P holds a list in an indexed property and N sets the property
\* to another list of the same kind, the call clears exactly the items of
\* the current list that are not in the new one, adds exactly the items of
\* the new list that are not in the current one, reports changes and the
\* ORM it serializes holds the new list; for TextList[a,b] and
\* TextList[b,c] the mutations are CLEAR a, ADD c and [b,c] is stored.
C14_ListMergeIsADiff ==
    [][MergeStep =>
        \A p \in Indexed :
            LET cur == orm.properties[p]
                new == orm_changes'.properties[p]
            IN  (cur.kind \in ListKinds /\ new.kind = cur.kind /\ new # cur) =>
                    /\ Cleared(document'.ops, p) = ItemsOf(cur) \ ItemsOf(new)
                    /\ Added(document'.ops, p) = ItemsOf(new) \ ItemsOf(cur)
                    /\ merged'.kind = "Ok" => merged'.detail = "true"
                    /\ merged'.kind = "Ok" =>
                          /\ document'.orm.some
                          /\ document'.orm.val.properties[p] = new
                          /\ orm'.properties[p] = new
                    /\ (cur = TextList(<<"a", "b">>) /\ new = TextList(<<"b", "c">>)) =>
                          OpsOf(document'.ops, {"text", "number"}, p)
                              = <<Mutation("text", p, "a", TRUE),
                                  Mutation("text", p, "c", FALSE)>>]_vars

\* A call has merged TextList[b,c] into a stored TextList[a,b].
C14_Witness ==
    /\ merged.kind = "Ok" /\ merged.detail = "true"
    /\ orm_changes.properties["keywords"] = TextList(<<"b", "c">>)
    /\ orm.properties["keywords"] = TextList(<<"b", "c">>)
    /\ OpsOf(document.ops, {"text"}, "keywords")
           = <<Mutation("text", "keywords", "a", TRUE),
               Mutation("text", "keywords", "c", FALSE)>>

\* C15: when P holds IntegerList[1,2] in an indexed property and N sets the
\* property to Integer 3, the call writes CLEAR number 1, CLEAR number 2
\* and ADD number 3, and the ORM it serializes holds Integer 3.
C15_ListToScalarStoresScalar ==
    [][MergeStep =>
        \A p \in Indexed :
            (/\ orm.properties[p] = IntegerList(<<"1", "2">>)
             /\ orm_changes'.properties[p] = Integer("3")) =>
                /\ OpsOf(document'.ops, {"text", "number"}, p)
                       = <<Mutation("number", p, "1", TRUE),
                           Mutation("number", p, "2", TRUE),
                           Mutation("number", p, "3", FALSE)>>
                /\ merged'.kind = "Ok" =>
                      /\ merged'.detail = "true"
                      /\ document'.orm.some
                      /\ document'.orm.val.properties[p] = Integer("3")]_vars

\* The step is a call of merge_validate.
ValidateStep == CallStep /\ merged'.op = "merge_validate"

\* N sets the property to an empty value; N omits a property P does not have.
SetsEmpty(new, p) == new.properties[p] # Absent /\ IsEmpty(new.properties[p])

OmitsMissing(self, new, p) ==
    new.properties[p] = Absent /\ self.properties[p] = Absent

RequiredSet == {Required[i] : i \in 1..Len(Required)}

\* C16: merge_validate fails with InvalidProperty, naming a required
\* property, exactly when N sets some required property to an empty value
\* or omits a required property that P does not have; the property named
\* is one of these.
C16_GateFailsExactlyOnEmptyRequired ==
    [][ValidateStep =>
        /\ (merged'.kind = "InvalidProperty")
              <=> \E p \in RequiredSet :
                      SetsEmpty(orm_changes', p) \/ OmitsMissing(orm, orm_changes', p)
        /\ merged'.kind = "InvalidProperty" =>
              /\ merged'.detail \in RequiredSet
              /\ \/ SetsEmpty(orm_changes', merged'.detail)
                 \/ OmitsMissing(orm, orm_changes', merged'.detail)]_vars

\* merge_validate has refused to set the subject "x" to the empty text.
C16_Witness ==
    /\ merged = InvalidProperty("subject")
    /\ orm.properties["subject"] = Text("x")
    /\ orm_changes.properties["subject"] = Text("")

\* Every required property is present and not empty in an ORM.
RequiredOk(o) ==
    \A p \in RequiredSet : o.properties[p] # Absent /\ ~IsEmpty(o.properties[p])

\* C17: when the stored ORM has every required property present and not
\* empty, it still has after a merge_validate that returned Ok, whatever
\* the changes were.
C17_RequiredStaysPresent ==
    [][(ValidateStep /\ merged'.kind = "Ok" /\ RequiredOk(orm)) => RequiredOk(orm')]_vars

\* C18: after any sequence of calls, for every indexed property the index
\* entries of the document, which are the mutations of the calls applied in
\* order (a mutation with the clear option removes, one without it adds),
\* are exactly the entries index_as() gives for the value the stored ORM
\* holds: none for a property that is absent, one per distinct item for a
\* list.
C18_IndexMatchesStoredValues ==
    \A p \in Indexed :
        {e \in orm_index : e.property = p}
            = {e \in IndexOf(orm.properties) : e.property = p}

\* A second merge has replaced a stored list by a list that holds the same
\* item twice, clearing the items of the first.
C18_Witness ==
    /\ merged.kind = "Ok" /\ merged.detail = "true"
    /\ orm.properties["keywords"] = TextList(<<"a", "a">>)
    /\ Cleared(document.ops, "keywords") # {}
    /\ [field |-> "text", property |-> "keywords", value |-> "a"] \in orm_index

\* C19: when a call reports changes, the ORM it serializes into the
\* document has the tags and the ACL list of N: in particular, when the
\* ACL list of N differs from that of P, the stored list is N's.
C19_StoredOrmTakesNewAcls ==
    [][(MergeStep /\ merged'.kind = "Ok" /\ merged'.detail = "true") =>
        /\ document'.orm.some
        /\ document'.orm.val.tags = orm_changes'.tags
        /\ document'.orm.val.acls = orm_changes'.acls
        /\ orm'.acls = orm_changes'.acls]_vars

\* ------------------------------------------------------------------------
\* The push manager as a state machine (spawn_push_manager)
\* ------------------------------------------------------------------------

\* The manager's locals in the middle of a turn.
ManagerOf(subs, retry, tasks, e) ==
    [subscriptions |-> subs, retry_ids |-> retry, deliveries |-> tasks, ev |-> e]

\* The manager at the start of a turn that handles an event of this kind.
Turn(kind) ==
    ManagerOf(subscriptions, retry_ids, deliveries,
              [push_ev EXCEPT !.kind = kind, !.retried = FALSE,
                              !.sends = <<>>, !.discards = {}])

\* A number no task that has not reported has.
FreeNumber(tasks) == CHOOSE n \in 1..(Cardinality(tasks) + 1) : \A t \in tasks : t.n # n

\* push_subscription.rs 309-340, PushServer::send: take the queued state
\* changes, set in_flight and last_request, spawn the delivery task.
Send(m, id) ==
    LET sub == m.subscriptions[id]
    IN  [m EXCEPT !.subscriptions[id] =
                      PushServerOf(sub.num_attempts, "short", <<>>, TRUE),
                  !.deliveries = @ \cup {DeliveryOf(id, sub.state_changes, FreeNumber(@))},
                  !.ev.sends = Append(@, [id |-> id, num_attempts |-> sub.num_attempts]),
                  !.ev.streak[id] = @ + 1]

\* push_subscription.rs 179-190, PushUpdate::Register.
OnRegister(m, id) ==
    IF m.subscriptions[id] = NoServer
    THEN [m EXCEPT !.subscriptions[id] = NewServer, !.ev.streak[id] = 0,
                   !.ev.registers = @ + 1]
    ELSE [m EXCEPT !.ev.registers = @ + 1]

\* push_subscription.rs 192-194, PushUpdate::Unregister.
OnUnregister(m, id) == [m EXCEPT !.subscriptions[id] = NoServer]

\* push_subscription.rs 199-221, Event::Push for one id: queue the state
\* change, then send at once or leave the id to the retry pass.
OnPush(m, id, state_change) ==
    IF m.subscriptions[id] # NoServer
    THEN LET queued == [m EXCEPT !.subscriptions[id].state_changes =
                                      Append(@, state_change),
                                 !.ev.pushes = @ + 1]
             sub == queued.subscriptions[id]
         IN  IF /\ ~sub.in_flight
                /\ \/ sub.num_attempts = 0 /\ sub.last_request \in {"throttle", "interval"}
                   \/ /\ sub.num_attempts \in 1..(PUSH_MAX_ATTEMPTS - 1)
                      /\ sub.last_request = "interval"
             THEN [Send(queued, id) EXCEPT !.retry_ids = @ \ {id}]
             ELSE [queued EXCEPT !.retry_ids = @ \cup {id}]
    ELSE [m EXCEPT !.ev.pushes = @ + 1]

\* push_subscription.rs 223-225, Event::Reset.
OnReset(m) == [m EXCEPT !.subscriptions = [id \in PushIds |-> NoServer]]

\* push_subscription.rs 226-232, Event::DeliverySuccess.
OnDeliverySuccess(m, id) ==
    IF m.subscriptions[id] # NoServer
    THEN [m EXCEPT !.subscriptions[id].num_attempts = 0,
                   !.subscriptions[id].in_flight = FALSE,
                   !.retry_ids = @ \ {id},
                   !.ev.streak[id] = 0]
    ELSE m

\* push_subscription.rs 233-241, Event::DeliveryFailure.
OnDeliveryFailure(m, id, state_changes) ==
    IF m.subscriptions[id] # NoServer
    THEN [m EXCEPT !.subscriptions[id].last_request = "short",
                   !.subscriptions[id].num_attempts = @ + 1,
                   !.subscriptions[id].state_changes = @ \o state_changes,
                   !.subscriptions[id].in_flight = FALSE,
                   !.retry_ids = @ \cup {id}]
    ELSE m

\* push_subscription.rs 257-283, the retry pass for one id: when its
\* subscription is not in flight and its wait is over, send, or after
\* PUSH_MAX_ATTEMPTS attempts discard the queue and reset the counter.
RetryDue(sub) ==
    /\ ~sub.in_flight
    /\ \/ sub.num_attempts = 0 /\ sub.last_request \in {"throttle", "interval"}
       \/ sub.num_attempts > 0 /\ sub.last_request = "interval"

\* A retry pass that sends whatever the number of attempts.
RetryOneAlwaysSend(m, id) ==
    LET sub == m.subscriptions[id]
    IN  IF sub # NoServer
        THEN IF RetryDue(sub)
             THEN [Send(m, id) EXCEPT !.retry_ids = @ \ {id}]
             ELSE m
        ELSE [m EXCEPT !.retry_ids = @ \ {id}]

RetryOne(m, id) ==
    LET sub == m.subscriptions[id]
    IN  IF sub # NoServer
        THEN IF RetryDue(sub)
             THEN IF sub.num_attempts < PUSH_MAX_ATTEMPTS
                  THEN [Send(m, id) EXCEPT !.retry_ids = @ \ {id}]
                  ELSE [m EXCEPT !.subscriptions[id].state_changes = <<>>,
                                 !.subscriptions[id].num_attempts = 0,
                                 !.retry_ids = @ \ {id},
                                 !.ev.discards = @ \cup {id},
                                 !.ev.streak[id] = 0]
             ELSE m
        ELSE [m EXCEPT !.retry_ids = @ \ {id}]

RECURSIVE RetryEach(_, _)
RetryEach(m, ids) ==
    IF ids = <<>> THEN m ELSE RetryEach(RetryOne(m, Head(ids)), Tail(ids))

\* push_subscription.rs 250-301, the end of every turn: the retry pass runs
\* when there are ids to retry and RETRY_MS have passed since the last one.
RetrySection(m, retry_elapsed) ==
    IF m.retry_ids # {} /\ retry_elapsed
    THEN RetryEach([m EXCEPT !.ev.retried = TRUE], IterOf(m.retry_ids))
    ELSE m

\* The manager's locals at the end of a turn.
EndTurn(m) ==
    /\ subscriptions' = m.subscriptions
    /\ retry_ids' = m.retry_ids
    /\ deliveries' = m.deliveries
    /\ push_ev' = m.ev
    /\ PushFrame

PushInit ==
    /\ PushIdle
    /\ IdIdle
    /\ CmpIdle
    /\ RaftIdle
    /\ DrvIdle
    /\ OrmIdle

\* Event::Update with one Register.
EventRegister(id, retry_elapsed) ==
    /\ push_ev.registers < MaxRegisters
    /\ EndTurn(RetrySection(OnRegister(Turn("Register"), id), retry_elapsed))

\* Event::Update with one Unregister.
EventUnregister(id, retry_elapsed) ==
    /\ subscriptions[id] # NoServer
    /\ EndTurn(RetrySection(OnUnregister(Turn("Unregister"), id), retry_elapsed))

\* Event::Push for one id; the state changes are numbered as they come.
EventPush(id, retry_elapsed) ==
    /\ push_ev.pushes < MaxPushes
    /\ EndTurn(RetrySection(OnPush(Turn("Push"), id, push_ev.pushes + 1), retry_elapsed))

\* Event::Reset.
EventReset(retry_elapsed) ==
    /\ \E id \in PushIds : subscriptions[id] # NoServer
    /\ EndTurn(RetrySection(OnReset(Turn("Reset")), retry_elapsed))

\* A delivery task reports: http_request returned true and the manager
\* handles Event::DeliverySuccess.
EventDeliverySuccess(task, retry_elapsed) ==
    /\ task \in deliveries
    /\ EndTurn(RetrySection(
           OnDeliverySuccess([Turn("DeliverySuccess") EXCEPT !.deliveries = @ \ {task}],
                             task.id),
           retry_elapsed))

\* A delivery task reports: http_request returned false and the manager
\* handles Event::DeliveryFailure with the state changes of the task.
EventDeliveryFailure(task, retry_elapsed) ==
    /\ task \in deliveries
    /\ EndTurn(RetrySection(
           OnDeliveryFailure([Turn("DeliveryFailure") EXCEPT !.deliveries = @ \ {task}],
                             task.id, task.state_changes),
           retry_elapsed))

\* retry_timeout expires before an event arrives.
Timeout(retry_elapsed) ==
    /\ retry_ids # {}
    /\ EndTurn(RetrySection(Turn("Timeout"), retry_elapsed))

\* Time passes for one subscription.
Later(from) == IF from = "short" THEN "throttle" ELSE "interval"

Tick(id) ==
    /\ subscriptions[id] # NoServer
    /\ subscriptions[id].last_request # "interval"
    /\ subscriptions' = [subscriptions EXCEPT ![id].last_request = Later(@)]
    /\ push_ev' = [push_ev EXCEPT !.kind = "Tick", !.retried = FALSE,
                                  !.sends = <<>>, !.discards = {}]
    /\ UNCHANGED <<retry_ids, deliveries>>
    /\ PushFrame

PushNext ==
    \/ \E id \in PushIds, e \in BOOLEAN : EventRegister(id, e)
    \/ \E id \in PushIds, e \in BOOLEAN : EventUnregister(id, e)
    \/ \E id \in PushIds, e \in BOOLEAN : EventPush(id, e)
    \/ \E e \in BOOLEAN : EventReset(e)
    \/ \E task \in deliveries, e \in BOOLEAN : EventDeliverySuccess(task, e)
    \/ \E task \in deliveries, e \in BOOLEAN : EventDeliveryFailure(task, e)
    \/ \E e \in BOOLEAN : Timeout(e)
    \/ \E id \in PushIds : Tick(id)

SpecPush == PushInit /\ [][PushNext]_vars

\* ------------------------------------------------------------------------
\* Properties of the push manager
\* ------------------------------------------------------------------------

\* The delivery task whose report the turn handled.
Reported == CHOOSE task \in deliveries : task \notin deliveries'

\* C20: a delivery is started only at num_attempts < PUSH_MAX_ATTEMPTS; a
\* DeliveryFailure for a registered subscription adds one to num_attempts
\* and a DeliverySuccess sets it to 0; the queue of a subscription is
\* discarded, and its counter reset to 0, only at PUSH_MAX_ATTEMPTS attempts
\* or more, and a retry pass that finds such a subscription due discards
\* instead of sending; so no more than PUSH_MAX_ATTEMPTS deliveries are
\* started in a row for a subscription without a success or a discard.
C20_AtMostThreeAttempts ==
    [][/\ \A i \in 1..Len(push_ev'.sends) :
              push_ev'.sends[i].num_attempts < PUSH_MAX_ATTEMPTS
       /\ (push_ev'.kind = "DeliveryFailure" /\ subscriptions[Reported.id] # NoServer) =>
              subscriptions'[Reported.id].num_attempts
                  = subscriptions[Reported.id].num_attempts + 1
       /\ (push_ev'.kind = "DeliverySuccess" /\ subscriptions[Reported.id] # NoServer) =>
              subscriptions'[Reported.id].num_attempts = 0
       /\ \A id \in push_ev'.discards :
              /\ subscriptions[id].num_attempts >= PUSH_MAX_ATTEMPTS
              /\ subscriptions'[id].num_attempts = 0
              /\ subscriptions'[id].state_changes = <<>>
       /\ \A id \in retry_ids :
              (/\ push_ev'.kind = "Timeout" /\ push_ev'.retried
               /\ subscriptions[id] # NoServer
               /\ RetryDue(subscriptions[id])
               /\ subscriptions[id].num_attempts >= PUSH_MAX_ATTEMPTS) =>
                  /\ id \in push_ev'.discards
                  /\ \A i \in 1..Len(push_ev'.sends) : push_ev'.sends[i].id # id
       /\ \A id \in PushIds : push_ev'.streak[id] <= PUSH_MAX_ATTEMPTS]_vars

\* The retry pass has discarded the queue of a subscription and reset its
\* counter.
C20_Witness ==
    /\ push_ev.kind = "Timeout"
    /\ push_ev.discards = {"p1"}
    /\ subscriptions["p1"].num_attempts = 0
    /\ subscriptions["p1"].state_changes = <<>>
    /\ deliveries = {}

\* ---- election safety

\* The candidates node n has granted its vote to in the given term: every
\* granted Response::Vote stays in vote_resps.
GrantedTo(n, term) ==
    {r.to : r \in {x \in vote_resps : x.vote_granted /\ x.from = n /\ x.term = term}}

\* The nodes in State::Leader at the given term.
LeadersOf(term) ==
    {n \in Members : cluster[n].state.kind = "Leader" /\ cluster[n].term = term}

\* C21: a node grants its vote to at most one candidate per term, and at most
\* one node is in state Leader for any given term.
C21_ElectionSafety ==
    /\ \A r \in vote_resps : Cardinality(GrantedTo(r.from, r.term)) <= 1
    /\ \A n \in Members : Cardinality(LeadersOf(cluster[n].term)) <= 1

\* ---- step-down

\* Node n handled a Request::Vote or a Response::Vote of a greater term in this
\* step: its term grew and it neither ran for election nor followed a leader.
ObservedHigherTerm(n) ==
    /\ cluster'[n].term > cluster[n].term
    /\ cluster'[n].state.kind \notin {"Candidate", "Follower"}

\* The messages in flight to node n that carry the given term.
InFlightTo(n, term) ==
    {m \in vote_reqs \cup vote_resps : m.to = n /\ m.term = term}

\* The Request::Vote of the given term whose vote node n grants after it
\* stepped down, in the same call of handle_vote_request.
GrantedAfterStepDown(n) ==
    /\ cluster'[n].state.kind = "VotedFor"
    /\ \E m \in vote_reqs : /\ m.to = n
                            /\ m.term = cluster'[n].term
                            /\ m.from = cluster'[n].state.peer_id
                            /\ m \notin vote_reqs'
    /\ ~cluster'[n].due

\* The election_due of step_down: one that has passed is kept, and a state
\* without an election_due gets a new one.
DeadlineAfterStepDown(n) ==
    cluster'[n].due <=> /\ cluster[n].state.kind \in TimerKinds
                        /\ \/ cluster[n].due
                           \/ ev' = [op |-> "election_due_passed", node |-> n]

\* C22: a node that handles a vote request or a vote response of a greater
\* term, in whatever state it is, adopts the term, enters Wait, has no
\* vote_granted left on any peer and is neither leader nor up to date; its
\* election_due is kept when it has passed and is drawn anew otherwise. (A
\* request that the node grants in the same call moves it on to VotedFor.)
C22_StepDown ==
    [][\A n \in Members :
          ObservedHigherTerm(n) =>
              /\ InFlightTo(n, cluster'[n].term) # {}
              /\ \A p \in PeersOf(cluster'[n]) : ~cluster'[n].vote_granted[p]
              /\ ~cluster'[n].is_leader
              /\ ~cluster'[n].is_up_to_date
              /\ \/ cluster'[n].state = WaitState /\ DeadlineAfterStepDown(n)
                 \/ GrantedAfterStepDown(n)]_vars

\* A node that led a term has stepped down to Wait at a greater term.
C22_Witness ==
    \E n \in Members :
        /\ cluster[n].state = WaitState
        /\ cluster[n].raft_log_term > cluster[n].last_log.term
        /\ cluster[n].last_log # NONE
        /\ cluster[n].term > cluster[n].raft_log_term
        /\ ~cluster[n].is_leader

\* ---- becoming leader

\* The votes count_vote finds for node nd: its own and those granted by peers
\* of its shard.
VotesOf(nd) ==
    1 + Cardinality({p \in PeersOf(nd) : IsInShard(p, nd.shard_id) /\ nd.vote_granted[p]})

\* The votes a node of nd's shard has to exceed.
HalfOf(nd) ==
    (Cardinality({p \in PeersOf(nd) : IsInShard(p, nd.shard_id)}) + 1) \div 2

\* Node n became the leader in this step.
BecameLeader(n) ==
    cluster[n].state.kind # "Leader" /\ cluster'[n].state.kind = "Leader"

\* C23: a candidate that obtains a majority becomes Leader, with exactly one
\* replication driver for every peer of its shard and none for other peers, a
\* watch channel that holds its last_log.index, is_leader and is_up_to_date
\* true and raft_log_term at its term; while it leads that term, vote responses
\* spawn no further driver.
C23_BecomeLeader ==
    [][\A n \in Members :
          /\ IsCandidate(cluster'[n]) => VotesOf(cluster'[n]) <= HalfOf(cluster'[n])
          /\ BecameLeader(n) =>
                /\ IsCandidate(cluster[n])
                /\ cluster'[n].term = cluster[n].term
                /\ \A p \in PeersOf(cluster'[n]) :
                      cluster'[n].spawned[p] =
                          IF IsInShard(p, cluster'[n].shard_id) THEN 1 ELSE 0
                /\ cluster'[n].rx = Some(cluster[n].last_log.index)
                /\ cluster'[n].is_leader
                /\ cluster'[n].is_up_to_date
                /\ cluster'[n].raft_log_term = cluster'[n].term
          /\ (cluster[n].state.kind = "Leader" /\ cluster'[n].state.kind = "Leader") =>
                /\ cluster'[n].spawned = cluster[n].spawned
                /\ cluster'[n].rx = cluster[n].rx]_vars

\* A leader with its drivers running while a granted vote for its term is
\* still to be handled.
C23_Witness ==
    \E n \in Members :
        /\ cluster[n].state.kind = "Leader"
        /\ cluster[n].is_leader
        /\ cluster[n].rx = Some(cluster[n].last_log.index)
        /\ \A p \in PeersOf(cluster[n]) :
              cluster[n].spawned[p] = IF IsInShard(p, cluster[n].shard_id) THEN 1 ELSE 0
        /\ \E r \in vote_resps : r.to = n /\ r.vote_granted /\ r.term = cluster[n].term

\* ---- the driver on a Match response

\* The task acts on a Match response in this step: right after send_request
\* when no init gate is left to take, or as it comes out of a gate that
\* reports a successful init.
HandlesMatch ==
    /\ TaskStep
    /\ response'.kind = "Match"
    /\ \/ drv.pc = "rpc" /\ ~drv.init_rx
       \/ drv.pc = "init" /\ init_tx = "ok"

\* The task goes on at the top of its loop in the given state, having sent
\* the given event to the coordinator.
GoesOn(state, main) ==
    /\ drv'.pc = "loop"
    /\ drv'.state = state
    /\ main_tx' = main

\* The task goes to wait at the init gate only with a gate it has not taken
\* yet, which it gives up there for good.
GateTakenOnce ==
    /\ (drv'.pc = "init" /\ drv.pc # "init") => (drv.init_rx /\ ~drv'.init_rx)
    /\ ~drv.init_rx => ~drv'.init_rx

\* C24: on Match{match_log} the driver goes to AppendLogs with no pending
\* changes if match_log is NONE and uncommitted_index is not MAX, and to Wait
\* if match_log is NONE and uncommitted_index is MAX; with a match_log that is
\* not NONE it ends if the local log has no successor entry, sends
\* AdvanceCommitIndex{index} to the coordinator and goes to AppendLogs if the
\* successor lookup returns match_log itself, and goes to Synchronize
\* otherwise. The init gate is awaited at most once.
C24_MatchHandling ==
    [][/\ GateTakenOnce
       /\ HandlesMatch =>
             IF IsNone(response'.match_log)
             THEN GoesOn(IF drv.uncommitted_index # LogIndexMax
                         THEN AppendLogsSt({}) ELSE WaitSt, NoMain)
             ELSE CASE response'.next_raft_id = "none" ->
                         drv'.pc = "exit" /\ main_tx' = NoMain
                    [] response'.next_raft_id = "same" ->
                         GoesOn(AppendLogsSt({}),
                                MainEventOf("AdvanceCommitIndex", 0,
                                            response'.match_log.index))
                    [] response'.next_raft_id = "other" ->
                         GoesOn(SynchronizeSt, NoMain)
                    [] OTHER -> drv'.pc = "exit"]_vars

\* The task came out of the init gate with a Match whose successor lookup
\* returned match_log itself.
C24_Witness ==
    /\ drv.pc = "loop"
    /\ response.kind = "Match"
    /\ ~IsNone(response.match_log)
    /\ response.next_raft_id = "same"
    /\ init_tx = "ok"
    /\ drv.state = AppendLogsSt({})
    /\ main_tx = MainEventOf("AdvanceCommitIndex", 0, response.match_log.index)

\* ---- the driver on a Synchronize response

\* The task acts on a Synchronize response in this step.
HandlesSynchronize ==
    /\ TaskStep
    /\ drv.pc = "rpc"
    /\ response'.kind = "Synchronize"

\* The task goes on to Merge{matched_log} with follower_last_index at the
\* index of matched_log.
GoesToMerge(matched_log) ==
    /\ GoesOn(MergeSt(matched_log), NoMain)
    /\ drv'.follower_last_index = matched_log.index

\* The follower of scenario S5 answered with the indexes of its term vector,
\* and the leader's store with get_match_indexes(min) on the leader's log.
ScenarioAnswer ==
    /\ response'.match_indexes = "some"
    /\ response'.indexes = ScenarioFollowerIndexes
    /\ response'.local_match = GetMatchIndexes(ScenarioLeaderTerms, ScenarioLeaderLast, 0)

\* C25: on Synchronize{match_indexes} an empty byte string gives matched_log
\* NONE; otherwise the follower's bitmap is intersected with the local indexes
\* of get_match_indexes(min of the follower's bitmap), an empty intersection
\* takes the driver back to BecomeLeader, and one that is not empty gives
\* matched_log = RaftId(term, max of the intersection); the driver goes to
\* Merge{matched_log} with follower_last_index = matched_log.index. For the
\* follower term vector [(1,0),(3,7)] against the leader's [(1,0),(2,5),(3,8)]
\* matched_log is (term 1, index 0) and entries are sent again from index 1.
C25_SynchronizeHandling ==
    [][HandlesSynchronize =>
          /\ response'.match_indexes = "empty" => GoesToMerge(NONE)
          /\ (/\ response'.match_indexes = "some"
              /\ response'.indexes # {}
              /\ response'.local_match.ok) =>
                LET intersection == response'.indexes \cap response'.local_match.indexes
                IN  IF intersection = {}
                    THEN /\ GoesOn(BecomeLeaderSt, NoMain)
                         /\ drv'.follower_last_index = drv.follower_last_index
                    ELSE GoesToMerge(RaftIdOf(response'.local_match.term,
                                              SetMax(intersection)))
          /\ ScenarioAnswer =>
                /\ GoesToMerge(RaftIdOf(1, 0))
                /\ \A u \in 1..MaxIndex :
                      SetMin(GetLogEntries(drv'.follower_last_index, u, {}).updates) = 1]_vars

\* The task is about to send Merge{(1, 0)} after the answer of scenario S5.
C25_Witness ==
    /\ drv.pc = "loop"
    /\ response.kind = "Synchronize"
    /\ response.indexes = {0, 7}
    /\ response.local_match.indexes = 0..4
    /\ drv.state = MergeSt(RaftIdOf(1, 0))
    /\ drv.follower_last_index = 0

\* ---- the driver in AppendLogs

\* The task takes a turn of its loop in State::AppendLogs, or in State::Wait
\* with a log index to read, which the poll turns into AppendLogs.
TurnInAppendLogs ==
    /\ TaskStep
    /\ drv.pc = "loop"
    /\ \/ drv.state.kind = "AppendLogs"
       \/ drv.state.kind = "Wait" /\ log_index_rx.changed

\* pending_changes as the turn finds it.
PendingAtTurn ==
    IF drv.state.kind = "AppendLogs" THEN drv.state.pending_changes ELSE {}

\* What get_log_entries returns in this turn: the poll has refreshed
\* uncommitted_index by then.
EntriesAtTurn ==
    GetLogEntries(drv.follower_last_index, drv'.uncommitted_index, PendingAtTurn)

\* C26: in AppendLogs the driver sends an Update with commit_index =
\* last_log.index whenever pending_changes is not empty or follower_last_index
\* differs from uncommitted_index, keeps the pending_changes that come back
\* and sets follower_last_index to the last index consumed; only with no
\* pending_changes and follower_last_index = uncommitted_index does it send
\* AdvanceCommitIndex{commit_index = last_log.index} and go to Wait.
C26_AppendLogs ==
    [][TurnInAppendLogs =>
          /\ drv'.pc \in {"rpc", "exit"}
          /\ drv'.pc = "rpc" =>
                IF PendingAtTurn # {} \/ drv.follower_last_index # drv'.uncommitted_index
                THEN /\ request' = [RequestOf("Update", drv.term) EXCEPT
                                       !.commit_index = drv'.last_log.index,
                                       !.updates = EntriesAtTurn.updates]
                     /\ drv'.state = AppendLogsSt(EntriesAtTurn.pending_changes)
                     /\ drv'.follower_last_index = EntriesAtTurn.last_index
                ELSE /\ request' = [RequestOf("AdvanceCommitIndex", drv.term) EXCEPT
                                       !.commit_index = drv'.last_log.index]
                     /\ drv'.state = WaitSt
                     /\ drv'.follower_last_index = drv.follower_last_index]_vars

\* An Update is out that left changes of its last entry pending, while the
\* leader's commit index is behind its uncommitted index.
C26_Witness ==
    /\ drv.pc = "rpc"
    /\ request.kind = "Update"
    /\ drv.state.kind = "AppendLogs"
    /\ drv.state.pending_changes # {}
    /\ drv.follower_last_index = drv.uncommitted_index
    /\ request.commit_index = drv.last_log.index
    /\ drv.last_log.index # drv.uncommitted_index

\* ---- the driver on a Done or a Continue response

\* The task acts on a response of the given kind in this step.
Handles(kind) ==
    /\ TaskStep
    /\ drv.pc = "rpc"
    /\ response'.kind = kind

\* The task's locals other than its State are as they were.
KeepsIndexes ==
    /\ drv'.follower_last_index = drv.follower_last_index
    /\ drv'.last_log = drv.last_log
    /\ drv'.uncommitted_index = drv.uncommitted_index

\* C27: on Done{up_to_index} the driver sends AdvanceCommitIndex{up_to_index}
\* to the coordinator if and only if up_to_index is not MAX, and goes on in
\* AppendLogs with no pending changes if up_to_index differs from
\* uncommitted_index and in Wait if it equals it. A Continue response changes
\* nothing in the driver.
C27_DoneHandling ==
    [][/\ Handles("Done") =>
             /\ main_tx' = IF response'.up_to_index # LogIndexMax
                           THEN MainEventOf("AdvanceCommitIndex", 0, response'.up_to_index)
                           ELSE NoMain
             /\ drv'.pc = "loop"
             /\ drv'.state = IF response'.up_to_index # drv.uncommitted_index
                             THEN AppendLogsSt({}) ELSE WaitSt
             /\ KeepsIndexes
       /\ Handles("Continue") =>
             /\ main_tx' = NoMain
             /\ drv' = [drv EXCEPT !.pc = "loop"]]_vars

\* The follower reported Done up to the leader's uncommitted index: the
\* coordinator is told and the task rests in Wait.
C27_Witness ==
    /\ drv.pc = "loop"
    /\ response.kind = "Done"
    /\ response.up_to_index # LogIndexMax
    /\ response.up_to_index = drv.uncommitted_index
    /\ drv.state = WaitSt
    /\ main_tx = MainEventOf("AdvanceCommitIndex", 0, response.up_to_index)

\* ---- the driver without an answer: the online-wait

\* The task is in the online-wait.
InOnlineWait == drv.pc = "online"

\* The log_index_rx branch of the select reads a new value in this step.
ReadsLogIndex == InOnlineWait /\ log_index_rx.changed /\ ~log_index_rx'.changed

\* The log_index_rx branch of the select finds the sender gone.
FindsLogIndexClosed ==
    /\ InOnlineWait
    /\ TaskStep
    /\ log_index_rx.closed
    /\ ~log_index_rx.changed
    /\ online_rx' = online_rx

\* C28: on Response::None the driver enters the online-wait, whatever its
\* state; there it sends no request, takes last_log and uncommitted_index from
\* every log-index update it reads, ends if the log-index channel is closed,
\* and leaves only when online_rx reports true, to go on from BecomeLeader.
C28_OnlineWait ==
    [][/\ Handles("None") =>
             /\ drv' = [drv EXCEPT !.pc = "online"]
             /\ request' = NoReq
             /\ main_tx' = NoMain
       /\ InOnlineWait => request = NoReq /\ request' = NoReq
       /\ ReadsLogIndex =>
             drv' = [drv EXCEPT
                        !.last_log = RaftIdOf(drv.term, log_index_rx.last_log_index),
                        !.uncommitted_index = log_index_rx.uncommitted_index]
       /\ FindsLogIndexClosed => drv'.pc = "exit"
       /\ (InOnlineWait /\ drv'.pc \notin {"online", "exit"}) =>
             /\ online_rx.changed
             /\ online_rx.online
             /\ drv' = [drv EXCEPT !.state = BecomeLeaderSt, !.pc = "loop"]]_vars

\* The task is back at BecomeLeader after an online-wait: it knows an index of
\* the follower, and no response is left from its last turn.
C28_Witness ==
    /\ drv.pc = "loop"
    /\ drv.state = BecomeLeaderSt
    /\ drv.follower_last_index # LogIndexMax
    /\ response = NoResp
    /\ request = NoReq
    /\ online_rx.online
    /\ ~online_rx.changed

\* ---- the driver on a response it does not expect

\* C29: an UnregisteredPeer response takes the driver back to BecomeLeader
\* from any state; an UpdatePeers, Vote or Pong response is ignored: the
\* driver's state, follower_last_index, last_log and uncommitted_index stay
\* as they are and the driver goes on running.
C29_ProtocolMismatch ==
    [][/\ Handles("UnregisteredPeer") =>
             /\ drv' = [drv EXCEPT !.state = BecomeLeaderSt, !.pc = "loop"]
             /\ main_tx' = NoMain
       /\ \A kind \in UnexpectedKinds :
             Handles(kind) =>
                /\ drv'.pc = "loop"
                /\ drv'.state = drv.state
                /\ KeepsIndexes
                /\ main_tx' = NoMain]_vars

\* The follower did not know the leader while the task was past the
\* handshake, and the task is back at BecomeLeader.
C29_Witness ==
    /\ drv.pc = "loop"
    /\ response.kind = "UnregisteredPeer"
    /\ drv.state = BecomeLeaderSt
    /\ drv.follower_last_index # LogIndexMax

\* ---- blob transfer

\* The task takes a turn of its loop in State::AppendBlobs.
TurnInAppendBlobs ==
    /\ TaskStep
    /\ drv.pc = "loop"
    /\ drv.state.kind = "AppendBlobs"

\* What prepare_blobs returns in this turn.
BlobsAtTurn == PrepareBlobs(drv.state.pending_blob_ids)

\* C30: a FetchBlobs{blob_ids} response puts the driver in
\* AppendBlobs{pending = blob_ids}; a turn in that state sends the blobs that
\* prepare_blobs returns and keeps the ids that remain, turn after turn while
\* ids remain; a turn that finds the pending list empty ends the driver.
C30_BlobTransfer ==
    [][/\ Handles("FetchBlobs") =>
             /\ drv' = [drv EXCEPT !.state = AppendBlobsSt(response'.blob_ids),
                                   !.pc = "loop"]
             /\ main_tx' = NoMain
       /\ TurnInAppendBlobs =>
             IF drv.state.pending_blob_ids = {}
             THEN drv'.pc = "exit" /\ request' = NoReq
             ELSE /\ drv'.pc \in {"rpc", "exit"}
                  /\ drv'.pc = "rpc" =>
                        /\ request' = [RequestOf("Update", drv.term) EXCEPT
                                          !.commit_index = drv'.last_log.index,
                                          !.updates = BlobsAtTurn.updates]
                        /\ drv'.state = AppendBlobsSt(BlobsAtTurn.pending_blob_ids)
                        /\ drv'.follower_last_index = drv.follower_last_index]_vars

\* The second batch of the blobs {1, 2} is out and no id is left pending.
C30_Witness ==
    /\ drv.pc = "rpc"
    /\ request.kind = "Update"
    /\ request.updates = {2}
    /\ drv.state = AppendBlobsSt({})

\* The tags a call cleared, and the tags it added, for one property.
TagsCleared(ops, p) ==
    LET of == OpsOf(ops, {"tag"}, p)
    IN  {of[i].value : i \in {j \in 1..Len(of) : of[j].clear}}

TagsAdded(ops, p) ==
    LET of == OpsOf(ops, {"tag"}, p)
    IN  {of[i].value : i \in {j \in 1..Len(of) : ~of[j].clear}}

\* C31: in the tag pass of a merge, for each property that has tags in both
\* P and N the tags cleared are exactly those of P's set that are not in
\* N's; for each property that has tags in N the tags added are exactly
\* those not in P's set for the property, all of them when P has none for
\* it; the ORM the call serializes has the tags of N, and the call reports
\* changes when the two tag maps differ.
C31_TagPass ==
    [][MergeStep =>
        LET P == orm.tags
            N == orm_changes'.tags
        IN  /\ \A p \in DOMAIN P \cap DOMAIN N :
                  TagsCleared(document'.ops, p) = P[p] \ N[p]
            /\ \A p \in DOMAIN N :
                  TagsAdded(document'.ops, p)
                      = IF p \in DOMAIN P THEN N[p] \ P[p] ELSE N[p]
            /\ (P # N /\ merged'.kind = "Ok") =>
                  /\ merged'.detail = "true"
                  /\ document'.orm.some
                  /\ document'.orm.val.tags = N
                  /\ orm'.tags = N]_vars

\* A call has replaced the tags {t1, t2} of a property by {t2, t3},
\* clearing t1 and adding t3.
C31_Witness ==
    /\ merged.kind = "Ok" /\ merged.detail = "true"
    /\ orm.tags = [p \in {"keywords"} |-> {"t2", "t3"}]
    /\ TagsCleared(document.ops, "keywords") = {"t1"}
    /\ TagsAdded(document.ops, "keywords") = {"t3"}

\* The tag entries the index of a document holds for the tags of an ORM.
TagIndexOf(tags) ==
    UNION {{EntryOf(Mutation("tag", p, t, FALSE)) : t \in tags[p]} : p \in DOMAIN tags}

\* The tag mutations among the mutations of a call.
TagMutations(ops) == SelectSeq(ops, LAMBDA m : m.field = "tag")

\* C32: after a merge that is committed, for every property with tags the
\* tag index, which is the index of the tags P had with the tag mutations
\* of the call applied to it in order, holds exactly the tags of the
\* stored ORM for the property, also when N has no tags for a property for
\* which P had some.
C32_TagIndexMatchesStoredTags ==
    [][(MergeStep /\ merged'.kind = "Ok" /\ merged'.detail = "true") =>
        \A p \in DOMAIN orm.tags \cup DOMAIN orm'.tags :
            {e \in Commit(TagIndexOf(orm.tags), TagMutations(document'.ops)) :
                e.property = p}
                = {e \in TagIndexOf(orm'.tags) : e.property = p}]_vars

\* N sets nothing but empty or Null values, and only for properties P does
\* not have; its tags and ACLs are those of P.
OnlyEmptyForMissing(self, new) ==
    /\ \E p \in DOMAIN new.properties : new.properties[p] # Absent
    /\ \A p \in DOMAIN new.properties :
          new.properties[p] # Absent =>
              IsEmpty(new.properties[p]) /\ self.properties[p] = Absent
    /\ new.tags = self.tags
    /\ new.acls = self.acls

\* C33: a call returns true, with the ORM serialized into the document,
\* only if the ORM it stores differs from P in a property value, a tag set
\* or the ACLs; and a call whose N sets nothing but empty or Null values
\* for properties P does not have returns false and leaves the document
\* empty.
C33_ChangesOnlyWhenOrmDiffers ==
    [][MergeStep =>
        /\ (merged'.kind = "Ok" /\ merged'.detail = "true") =>
              /\ document'.orm.some
              /\ document'.orm.val # orm
        /\ (merged'.kind = "Ok" /\ OnlyEmptyForMissing(orm, orm_changes')) =>
              /\ merged'.detail = "false"
              /\ document' = EmptyDocument]_vars

\* C34: merging is idempotent: when a call has merged N into P and stored
\* P', merge(P', N) adds no mutation to the document and returns false.
C34_MergeIsIdempotent ==
    [][(MergeStep /\ merged'.kind = "Ok") =>
        LET again == Merge(orm', orm_changes')
        IN  /\ again.ops = <<>>
            /\ ~again.has_changes]_vars

\* C35: when merge_validate fails on a required property, the document has
\* no mutation and no serialized ORM, and the stored ORM and the index are
\* what they were: the required properties are all looked at before the
\* first mutation is written.
C35_GateFailureWritesNothing ==
    [][(ValidateStep /\ merged'.kind = "InvalidProperty") =>
        /\ document' = EmptyDocument
        /\ orm' = orm
        /\ orm_index' = orm_index]_vars

\* merge_validate has refused changes that empty the subject and replace
\* the keywords of a stored ORM that has both: a merge of them would have
\* written mutations.
C35_Witness ==
    /\ merged = InvalidProperty("subject")
    /\ orm.properties["subject"] = Text("x")
    /\ orm.properties["keywords"] = TextList(<<"a", "b">>)
    /\ orm_changes.properties["subject"] = Text("")
    /\ orm_changes.properties["keywords"] = TextList(<<"b", "c">>)
    /\ Merge(orm, orm_changes).ops # <<>>
    /\ document = EmptyDocument

\* ---- the driver on an unexpected response to a batch of log entries

\* The task acts on an unexpected response to an Update it sent in
\* State::AppendLogs.
UnexpectedToAppendLogs ==
    /\ \E kind \in UnexpectedKinds : Handles(kind)
    /\ request.kind = "Update"
    /\ drv.state.kind = "AppendLogs"

\* C36: the driver skips no log entry the follower has not acknowledged:
\* when the Update of a turn in AppendLogs is answered by UpdatePeers, Vote
\* or Pong, the task stays in AppendLogs with follower_last_index and
\* pending_changes such that its next turn reads the entries of that Update
\* again.
C36_UnansweredBatchIsSentAgain ==
    [][UnexpectedToAppendLogs =>
          /\ drv'.pc = "loop"
          /\ drv'.state.kind = "AppendLogs"
          /\ GetLogEntries(drv'.follower_last_index, drv'.uncommitted_index,
                           drv'.state.pending_changes).updates
                 = request.updates]_vars

\* ---- the term of a node and of its replication tasks

\* start_election of node n ran run_for_election in this step.
RanForElection(n) ==
    /\ ev' = [op |-> "start_election", node |-> n]
    /\ cluster'[n] # cluster[n]
    /\ cluster'[n].state.kind = "Candidate"

\* Node n is Leader before and after the step: the replication tasks of its
\* leadership live on.
StaysLeader(n) ==
    cluster[n].state.kind = "Leader" /\ cluster'[n].state.kind = "Leader"

JustRanForElection(n) ==
    ev = [op |-> "start_election", node |-> n] /\ cluster[n].state.kind = "Candidate"

NoVoteGranted(nd) == \A p \in PeersOf(nd) : ~nd.vote_granted[p]

\* C38: in every state the flag is_leader of a node is set if and only if
\* the node's state is Leader, and a node that start_election_timer,
\* step_down, vote_for, follow_leader or become_leader has left in its
\* state, or on which run_for_election has just run, has vote_granted set
\* for no peer: a flag is set only while a Candidate counts votes.
C38_LeaderFlagAndVotes ==
    \A n \in Members :
        /\ cluster[n].is_leader <=> (cluster[n].state.kind = "Leader")
        /\ (cluster[n].state.kind # "Candidate" \/ JustRanForElection(n)) =>
              NoVoteGranted(cluster[n])

\* A candidate that had counted a vote has become leader, and a node that
\* was leader before has stepped down: the first has the flag and no vote
\* recorded, the second has lost the flag.
C38_Witness ==
    \E n, m \in Members :
        /\ n # m
        /\ cluster[n].state.kind = "Leader"
        /\ cluster[n].is_leader
        /\ NoVoteGranted(cluster[n])
        /\ cluster[m].state.kind # "Leader"
        /\ ~cluster[m].is_leader
        /\ cluster[m].raft_log_term > cluster[m].last_log.term

\* ---- deliveries in flight

\* The delivery tasks of a subscription id that have not reported yet.
InFlightOf(id) == {task \in deliveries : task.id = id}

\* C39: for each subscription id at most one delivery task is in flight at
\* any time, whatever the order of Register, Unregister, Push, Reset, the
\* delivery reports and the retry timer; and while a delivery of a
\* registered subscription has not reported, its in_flight is set, so that
\* no other delivery is started for it.
C39_OneDeliveryInFlight ==
    \A id \in PushIds :
        /\ Cardinality(InFlightOf(id)) <= 1
        /\ (InFlightOf(id) # {} /\ subscriptions[id] # NoServer) =>
              subscriptions[id].in_flight

\* ---- the push manager under a fair schedule

\* Every delivery task reports (http_request returns within
\* PUSH_TIMEOUT_MS), time passes, and with ids to retry the manager's
\* timeout expires with RETRY_MS gone since the last retry pass. No Push,
\* Register, Unregister or Reset event has to come.
PushFair ==
    /\ WF_vars(\E task \in deliveries, e \in BOOLEAN :
                  EventDeliverySuccess(task, e) \/ EventDeliveryFailure(task, e))
    /\ \A id \in PushIds : WF_vars(Tick(id))
    /\ WF_vars(Timeout(TRUE))

SpecPushLive == PushInit /\ [][PushNext]_vars /\ PushFair

\* State changes are queued for a registered subscription.
Queued(id) == subscriptions[id] # NoServer /\ subscriptions[id].state_changes # <<>>

\* C40: no queued state change is stranded: the state changes queued for a
\* registered subscription are eventually taken by a delivery or discarded
\* (or the subscription is removed), also when they were queued while a
\* delivery was in flight and no further Push event comes.
C40_NoStrandedStateChange ==
    \A id \in PushIds : Queued(id) ~> ~Queued(id)

====
